---- MODULE Spec2Model ----
(***************************************************************************)
(* News/PR listing-page discovery (examples/stagehand_company_news).      *)
(*                                                                         *)
(* The model covers                                                        *)
(*   - the URL utilities and the heuristic classifier of src/utils,        *)
(*   - the three discovery strategies and discoverNewsPage                 *)
(*     (src/news-discovery.ts),                                            *)
(*   - the per-domain result cache of utils/stagehand-s3-persistence.ts    *)
(*     and the batch loop of tests/test-news-discovery.ts that uses it.    *)
(*                                                                         *)
(* Strings are modelled by what the code reads of them: a URL is a record  *)
(* of host labels, path segments and a trailing-slash flag; a segment or a *)
(* link text is a token whose relevant attributes (keywords, length,       *)
(* hyphens, ...) are given by tables.                                      *)
(***************************************************************************)
EXTENDS Integers, Sequences, FiniteSets, TLC

----------------------------------------------------------------------------
(* Bounds *)

\* config.discovery.maxCandidatesToCheck (environment-overridable, default 5)
maxCandidatesToCheck == 2
\* config.discovery.maxSearchResults (environment-overridable, default 10)
maxSearchResults == 3
\* external calls that fail during one discovery: a call that throws or times
\* out, a navigation answered without a response or with a status >= 400
MaxFaults == 1
\* content the external sources give during one discovery: the links of the
\* observe()/extract() answers, a search icon, the successful act() calls
MaxItems == 4
\* content the external sources give during the sessions of testNewsDiscovery
BatchItems == 2
\* number of sessions (executions of testNewsDiscovery) against the same store
MaxSessions == 2

\* per-domain uploads one execution makes while another one runs
MaxUploads == 2

\* links given to a heuristic stage looked at on its own
MaxLinks == 3

\* logBatchSize: lines in the buffer that trigger a flush (50 by default)
logBatchSize == 2

\* log lines the logger is called with in a session
MaxLines == 3

\* PutObject requests for log batches that fail in a session
MaxPutFailures == 3

----------------------------------------------------------------------------
(* Sequence helpers *)

Range(s) == {s[i] : i \in 1..Len(s)}

Min(a, b) == IF a < b THEN a ELSE b

\* Array.prototype.slice(0, n)
Slice(s, n) == SubSeq(s, 1, Min(n, Len(s)))

\* Array.prototype.filter
RECURSIVE FilterSeq(_, _)
FilterSeq(s, keep) ==
  IF s = <<>> THEN <<>>
  ELSE (IF Head(s) \in keep THEN <<Head(s)>> ELSE <<>>) \o FilterSeq(Tail(s), keep)

\* first occurrences only, order kept (the Set-based dedup idiom of the code)
RECURSIVE DedupFrom(_, _)
DedupFrom(s, seen) ==
  IF s = <<>> THEN <<>>
  ELSE IF Head(s) \in seen THEN DedupFrom(Tail(s), seen)
       ELSE <<Head(s)>> \o DedupFrom(Tail(s), seen \cup {Head(s)})

\* Array.prototype.reverse
Reversed(s) == [i \in 1..Len(s) |-> s[Len(s) + 1 - i]]

NoDup(s) == \A i, j \in 1..Len(s) : s[i] = s[j] => i = j

----------------------------------------------------------------------------
(* Strings: hosts, path segments, link texts *)

\* String.prototype.toLowerCase on the tokens used for host labels and segments
ToLower(t) ==
  CASE t = "Example" -> "example"
    [] t = "WWW." -> "www."
    [] t = "News" -> "news"
    [] OTHER -> t

LowerSeq(s) == [i \in 1..Len(s) |-> ToLower(s[i])]

\* the keywords some code path looks for with String.prototype.includes
KwOfToken(t) ==
  CASE t \in {"news", "News", "newsroom", "news-releases"} -> {"news"}
    [] t \in {"press", "press-releases", "pressrelease"} -> {"press"}
    [] t = "media" -> {"media"}
    [] t = "blog" -> {"blog"}
    [] t = "updates" -> {"updates"}
    [] t = "investor-relations" -> {"investor"}
    [] t = "announcements" -> {"announcement"}
    [] t \in {"acme-announces-record-q1-news", "a-very-long-slug-of-one-news-story"} -> {"news"}
    [] t = "Press Releases" -> {"press", "press release"}
    [] t = "press-kit.pdf" -> {"press"}
    [] OTHER -> {}

\* String.prototype.length of a path segment
SegLen(t) ==
  CASE t = "acme-announces-record-q1-news" -> 29
    [] t = "a-very-long-slug-of-one-news-story" -> 34
    [] t = "press-releases" -> 14
    [] t = "investor-relations" -> 18
    [] OTHER -> 8

\* number of '-' in a path segment
SegHyphens(t) ==
  CASE t = "acme-announces-record-q1-news" -> 4
    [] t = "a-very-long-slug-of-one-news-story" -> 7
    [] t \in {"press-releases", "news-releases", "investor-relations"} -> 1
    [] t = "press-kit.pdf" -> 1
    [] OTHER -> 0

\* /(20\d{2}|19\d{2})/ on a whole segment
SegIsYear(t) == t \in {"2024", "1999"}

\* the segment ends in .pdf, .jpg or .png
SegIsFile(t) == t \in {"press-kit.pdf", "logo.png"}

\* a lower-cased segment that, followed by '/', marks a single document
SegIsArticleMarker(t) ==
  t \in {"pressrelease", "article", "whitepapers", "whitepaper", "insights", "story", "post"}

\* the title contains an announcement verb or a quarter marker
TextIsSpecific(t) == t \in {"Acme announces Q1 results"}

----------------------------------------------------------------------------
(* URLs *)

\* an absolute URL https://<host labels joined by '.'>/<segments joined by '/'>
\* with or without a trailing '/'; host = <<>> stands for a string that
\* new URL() rejects
MkUrl(h, p, t) == [host |-> h, path |-> p, trail |-> t]

\* null (newsPageUrl: string | null)
NoUrl == MkUrl(<<>>, <<>>, FALSE)

UrlParses(u) == u.host # <<>>

LastSeg(u) == IF u.path = <<>> THEN "" ELSE u.path[Len(u.path)]

\* keywords that String.prototype.includes finds in the lower-cased URL string
UrlKw(u) ==
  UNION ({KwOfToken(ToLower(u.host[i])) : i \in 1..Len(u.host)}
         \cup {KwOfToken(ToLower(u.path[i])) : i \in 1..Len(u.path)})

\* urlLower.endsWith('.pdf') || endsWith('.jpg') || endsWith('.png')
UrlIsFile(u) == ~u.trail /\ u.path # <<>> /\ SegIsFile(ToLower(LastSeg(u)))

\* host.endsWith('.' + domain) on label sequences
HostEndsWithDot(h, d) ==
  /\ Len(d) > 0
  /\ Len(h) > Len(d)
  /\ SubSeq(h, Len(h) - Len(d) + 1, Len(h)) = d

isOnDomain(url, targetDomain) ==
  /\ UrlParses(url)
  /\ LET urlHost == LowerSeq(url.host)
         domain == LowerSeq(targetDomain)
     IN urlHost = domain \/ HostEndsWithDot(urlHost, domain)

isUrlOnDomain(urlString, companyDomain) ==
  /\ UrlParses(urlString)
  /\ LET urlHost == LowerSeq(urlString.host)
         lowered == LowerSeq(companyDomain)
         targetDomain == IF lowered # <<>> /\ lowered[1] = "www" /\ Len(lowered) > 1
                         THEN Tail(lowered) ELSE lowered
     IN urlHost = targetDomain \/ HostEndsWithDot(urlHost, targetDomain)

----------------------------------------------------------------------------
(* Links and the heuristic classifier *)

\* SearchResult {title, url, snippet}; homepage links {text, url} use title
\* for text and "" for snippet
MkLink(t, u, s) == [title |-> t, url |-> u, snippet |-> s]

filterNewsRelatedUrls(results, companyDomain) ==
  LET keep(r) ==
        /\ isUrlOnDomain(r.url, companyDomain)
        /\ \/ UrlKw(r.url) \cap {"news", "press", "media", "blog", "updates"} # {}
           \/ KwOfToken(r.title) \cap {"news", "press", "media"} # {}
           \/ KwOfToken(r.snippet) \cap {"news", "press release"} # {}
        /\ ~UrlIsFile(r.url)
  IN FilterSeq(results, {r \in Range(results) : keep(r)})

\* /\/(20\d{2}|19\d{2})\// : a year segment that is followed by a '/'
hasYearInPath(u) ==
  \E i \in 1..Len(u.path) : SegIsYear(u.path[i]) /\ (i < Len(u.path) \/ u.trail)

looksLikeArticleSlug(u) == SegLen(LastSeg(u)) > 30 \/ SegHyphens(LastSeg(u)) >= 4

hasArticlePathIndicators(u) ==
  \E i \in 1..Len(u.path) :
    SegIsArticleMarker(ToLower(u.path[i])) /\ (i < Len(u.path) \/ u.trail)

isGenericPage(u) ==
  ToLower(LastSeg(u)) \in
    {"", "news", "press", "media", "newsroom", "press-releases", "news-releases",
     "presrel.html", "index.html", "announcements"}

\* a classifier without the check of the last segment
isSpecificArticleNoOverride(r) ==
  /\ UrlParses(r.url)
  /\ \/ hasYearInPath(r.url)
     \/ looksLikeArticleSlug(r.url)
     \/ hasArticlePathIndicators(r.url)
     \/ TextIsSpecific(r.title)

isSpecificArticle(r) ==
  /\ UrlParses(r.url)
  /\ \/ hasYearInPath(r.url)
     \/ looksLikeArticleSlug(r.url)
     \/ hasArticlePathIndicators(r.url)
     \/ TextIsSpecific(r.title)
  /\ ~isGenericPage(r.url)

\* a classifier whose catch branch drops the link
categorizeUrlsDropsUnparsed(results) ==
  [listingPages |-> FilterSeq(results, {r \in Range(results) :
                                          UrlParses(r.url) /\ ~isSpecificArticle(r)}),
   articles |-> FilterSeq(results, {r \in Range(results) : isSpecificArticle(r)})]

categorizeUrls(results) ==
  [listingPages |-> FilterSeq(results, {r \in Range(results) : ~isSpecificArticle(r)}),
   articles |-> FilterSeq(results, {r \in Range(results) : isSpecificArticle(r)})]

\* the root URLs one article contributes, shortest first
RootsOfArticle(u) ==
  IF ~UrlParses(u) THEN <<>>
  ELSE LET n == Min(3, Len(u.path))
           root(i) == MkUrl(LowerSeq(u.host), SubSeq(u.path, 1, i), FALSE)
           ok(i) == UrlKw(MkUrl(<<>>, SubSeq(u.path, 1, i), FALSE))
                      \cap {"news", "press", "media", "blog"} # {}
           all == [i \in 1..n |-> root(i)]
       IN FilterSeq(all, {root(i) : i \in {j \in 1..n : ok(j)}})

RECURSIVE RootUrlsOf(_)
RootUrlsOf(articles) ==
  IF articles = <<>> THEN <<>>
  ELSE RootsOfArticle(Head(articles).url) \o RootUrlsOf(Tail(articles))

extractRootUrlsFromArticles(articles) ==
  LET urls == DedupFrom(RootUrlsOf(Slice(articles, Min(10, Len(articles)))), {})
  IN [i \in 1..Len(urls) |->
        MkLink("Extracted root", urls[i], "Root URL extracted from article path")]

----------------------------------------------------------------------------
(* Targets and external inputs *)

\* CompanyInput.website as written in companies.ts: an optional scheme, an
\* optional "www." and the host labels
MkSite(sc, w, h) == [scheme |-> sc, www |-> w, host |-> h]

ExampleCom == <<"example", "com">>

Acme == [name |-> "Acme", website |-> MkSite("https://", "www.", ExampleCom)]
AcmeWww == [name |-> "Acme Inc", website |-> MkSite("", "www.", ExampleCom)]
AcmeBare == [name |-> "Acme Corp", website |-> MkSite("", "", <<"Example", "com">>)]

\* a CompanyInput whose website is not a domain: new URL() rejects it
Malformed == [name |-> "Nowhere", website |-> MkSite("", "", <<>>)]

\* the companies discoverNewsPage is called for
Targets == {Acme, Malformed}

\* the companies of companies.ts: display names and website spellings
Companies == {Acme, AcmeWww, AcmeBare}

\* TEST_COMPANIES, the batch one session processes
Batches ==
  { <<Acme>>, <<AcmeWww, AcmeBare>>, <<AcmeBare, Acme>> }

\* new URL(...).hostname is lower-cased by the parser; a leading "www." is
\* then removed. For a website new URL() rejects, the catch branch strips the
\* scheme and "www." from the string itself and lower-cases what is left.
getDomainFromUrl(url) ==
  LET hostname == (IF url.www = "" THEN <<>> ELSE <<"www">>) \o LowerSeq(url.host)
  IN IF Len(hostname) > 1 /\ hostname[1] = "www" THEN Tail(hostname) ELSE hostname

\* new URL(url.startsWith('http') ? url : `https://${url}`) does not throw
WebsiteParses(w) == w.host # <<>>

\* companyUrl: the website with "https://" in front unless it starts with "http"
companyUrl(c) ==
  MkUrl((IF c.website.www = "" THEN <<>> ELSE <<c.website.www>>) \o c.website.host,
        <<>>, FALSE)

\* the pages the external sources can point at
NewsUrl == MkUrl(ExampleCom, <<"news">>, FALSE)
PressUrl == MkUrl(<<"ir", "example", "com">>, <<"press-releases">>, FALSE)
ArticleUrl == MkUrl(ExampleCom, <<"news", "2024", "acme-announces-record-q1-news">>, FALSE)
OffsiteUrl == MkUrl(<<"other", "com">>, <<"news">>, FALSE)
FileUrl == MkUrl(ExampleCom, <<"media", "press-kit.pdf">>, FALSE)
AboutUrl == MkUrl(ExampleCom, <<"about">>, FALSE)
DdgUrl == MkUrl(<<"duckduckgo", "com">>, <<"y.js">>, FALSE)

NewsLink == MkLink("News", NewsUrl, "Latest")
PressLink == MkLink("Press Releases", PressUrl, "Latest")
ArticleLink == MkLink("Acme announces Q1 results", ArticleUrl, "Latest")
OffsiteLink == MkLink("News", OffsiteUrl, "Latest")
FileLink == MkLink("Press Releases", FileUrl, "Latest")
AboutLink == MkLink("About us", AboutUrl, "Latest")
DdgLink == MkLink("News", DdgUrl, "Latest")
\* an observed element whose href cannot be read (extractHrefFromElement -> null)
NoHref == MkLink("", NoUrl, "")

\* what observe() + extractHrefFromElement can yield on the search page
SearchObserved ==
  { <<>>,
    <<NewsLink>>,
    <<DdgLink>>,
    <<NoHref, DdgLink>>,
    <<ArticleLink, NewsLink, OffsiteLink>>,
    <<PressLink, AboutLink, FileLink, NewsLink>> }

\* what extract(SearchResultsSchema) can yield: results, or no results field
NoResultsField == <<MkLink("undefined", NoUrl, "undefined")>>

SearchExtracted ==
  { <<>>,
    NoResultsField,
    <<PressLink>>,
    <<MkLink("", NewsUrl, "Latest"), ArticleLink>>,
    <<NewsLink, PressLink, ArticleLink>> }

\* HTTP status of a navigation; 0 stands for an absent response/status
Statuses == {0, 200, 404}

LatestDates == {"null", "2024-03-15"}

\* what extract(PressReleaseVerificationSchema) can answer
Verifications ==
  {[hasNews |-> FALSE, latestDate |-> "null"]}
    \cup {[hasNews |-> TRUE, latestDate |-> d] : d \in LatestDates}

----------------------------------------------------------------------------
(* State *)

VARIABLES
  pc,          \* the await discoverNewsPage is suspended at, or "idle"/"done"
  company,     \* the CompanyInput of the running discovery
  steps,       \* DiscoveryStep[] of the running discovery
  loc,         \* locals of the running strategy function
  sres,        \* searchResult / homepageResult / siteSearchResult
  result,      \* the DiscoveryResult returned by discoverNewsPage
  faults,      \* external calls that have failed in this discovery
  served,      \* content the external sources have given in this discovery
  calls,       \* external calls made by each strategy in this discovery
  lastCall,    \* the most recent external call of this discovery
  prevCall     \* the external call before it

orchVars ==
  <<pc, company, steps, loc, sres, result, faults, served, calls, lastCall, prevCall>>

VARIABLES
  session,     \* the running execution of testNewsDiscovery (its sessionId)
  enabled,     \* options.enabled of the persistence of this session
  batch,       \* TEST_COMPANIES
  idx,         \* the loop index i of testNewsDiscovery (1-based)
  bpc,         \* where testNewsDiscovery is: "lookup", "discover", "upload", ...
  results,     \* results: DiscoveryResult[] of this session
  cache,       \* the per-domain result objects in the store
  storeIdx,    \* the loop index of uploadDiscoveryResults over results (1-based)
  s3faults,    \* store requests that have failed
  callsFor     \* per entry of results: the external calls discovery made for it

batchVars ==
  <<session, enabled, batch, idx, bpc, results, cache, storeIdx, s3faults, callsFor>>

VARIABLES
  uploads,     \* per concurrent execution: the uploadSync(domainResultKey, ...) it is in
  completed,   \* the PutObject requests the store has applied, in order
  got          \* what the last getCachedDiscoveryResult read from the store

storeVars == <<uploads, completed, got>>

VARIABLES
  hpc,         \* the heuristic stage applied to links: "start" before any
  hlinks,      \* the links a heuristic stage is given
  hranking,    \* the answer of the ranking oracle for them
  out          \* what the stage made of them

heurVars == <<hpc, hlinks, hranking, out>>

VARIABLES
  lpc,            \* where the session of the persistence is: "running", ...
  logBuffer,      \* this.logBuffer
  logBatchIndex,  \* this.logBatchIndex
  totalLogCount,  \* this.totalLogCount
  flushTimer,     \* this.flushTimer is set
  pendingUploads, \* this.pendingUploads: the uploadAsync calls not settled yet
  awaited,        \* the promises waitForPendingUploads gave to Promise.allSettled
  syncUpload,     \* the uploadSync of the final flush that endSession awaits
  objects,        \* the log batches the store holds
  requests        \* the PutObject requests sent for log batches

logVars ==
  <<lpc, logBuffer, logBatchIndex, totalLogCount, flushTimer, pendingUploads, awaited,
    syncUpload, objects, requests>>

vars == <<orchVars, batchVars, storeVars, heurVars, logVars>>

\* addStep(steps, step, action, result, detail, url); the step id is
\* `${step}`, `${step}-${n}` or `${step}-${term}-${n}`
Step(ph, id, term, n, action, res, detail, url) ==
  [phase |-> ph, step |-> id, term |-> term, n |-> n, action |-> action,
   result |-> res, detail |-> detail, url |-> url]

\* a step that takes the place of the step recorded last
addStepOverwrites(st, e) == IF st = <<>> THEN <<e>> ELSE [st EXCEPT ![Len(st)] = e]

addStep(st, e) == Append(st, e)

NoVerification == [hasNews |-> FALSE, latestDate |-> "null"]

InitLoc ==
  [candidates |-> <<>>, i |-> 0, candidatesChecked |-> 0, totalCandidatesChecked |-> 0,
   rawCount |-> 0, observedAny |-> FALSE, termIndex |-> 0, searchSucceeded |-> FALSE,
   verification |-> NoVerification, pageUrl |-> NoUrl]

\* the value a strategy function returns
StrategyResult(ok, url, date, raw, checked, err) ==
  [success |-> ok, newsPageUrl |-> url, latestDate |-> date,
   searchResultsCount |-> raw, candidatesChecked |-> checked, error |-> err]

NotRun == StrategyResult(FALSE, NoUrl, "null", 0, 0, "not run")

NoCall == [kind |-> "none", url |-> NoUrl, status |-> 0, phase |-> 0]

Call(k, u, s, ph) == [kind |-> k, url |-> u, status |-> s, phase |-> ph]

\* DiscoveryResult
DiscoveryResult(c, ok, url, date, raw, checked, method, err, st) ==
  [companyName |-> c.name, companyWebsite |-> c.website, success |-> ok,
   newsPageUrl |-> url, latestDate |-> date, searchResultsCount |-> raw,
   candidatesChecked |-> checked, discoveryMethod |-> method, error |-> err,
   steps |-> st]

NoResult ==
  [companyName |-> "", companyWebsite |-> MkSite("", "", <<>>), success |-> FALSE,
   newsPageUrl |-> NoUrl, latestDate |-> "null", searchResultsCount |-> 0,
   candidatesChecked |-> 0, discoveryMethod |-> "pending", error |-> "",
   steps |-> <<>>]

----------------------------------------------------------------------------
(* discoverNewsPage: plumbing shared by the strategies *)

\* an external call returned or threw: bookkeeping of the calls made
Made(cs) ==
  /\ lastCall' = cs[Len(cs)]
  /\ prevCall' = IF Len(cs) > 1 THEN cs[Len(cs) - 1] ELSE lastCall
  /\ calls' = [ph \in 1..3 |->
                 calls[ph] + Cardinality({k \in 1..Len(cs) : cs[k].phase = ph})]

\* an external call of discovery can fail; during the sessions of
\* testNewsDiscovery the calls that fail are those of the store
MayThrow == session = 0 /\ faults < MaxFaults

Threw == faults' = faults + 1 /\ served' = served

NoThrow == faults' = faults /\ served' = served

NoFault == faults' = faults

\* the site answers a navigation with this status
Answers(status) ==
  /\ status # 200 => MayThrow
  /\ faults' = IF status # 200 THEN faults + 1 ELSE faults
  /\ served' = served

\* a status check that only looks for a missing response
FailedOnlyAbsent(status) == status = 0

\* !response || response.status() >= 400
Failed(status) == status = 0 \/ status >= 400

\* a loop that validates every candidate, whatever the oracle answered
AcceptedAlways(verification) == TRUE

\* if (verification.hasNews)
Accepted(verification) == verification.hasNews

\* the content the external sources give: to one discovery called directly,
\* to all the discoveries of the sessions of testNewsDiscovery
ItemLimit == IF session = 0 THEN MaxItems ELSE BatchItems

\* the external source can answer the list ls
CanServe(ls) == ls = NoResultsField \/ served + Len(ls) <= ItemLimit

Served(ls) == IF ls = NoResultsField THEN served ELSE served + Len(ls)

\* the strategy is suspended at the next await
Goto(p, st, l) ==
  /\ pc' = p
  /\ steps' = st
  /\ loc' = l
  /\ UNCHANGED <<company, sres, result>>
  /\ UNCHANGED <<batchVars, storeVars, heurVars, logVars>>

\* a catch block that returns without the steps recorded before the error
ThrowDropsSteps(msg, st) ==
  /\ pc' = "done"
  /\ steps' = st
  /\ loc' = InitLoc
  /\ result' = DiscoveryResult(company, FALSE, NoUrl, "null", 0, 0, "none", msg, <<>>)
  /\ UNCHANGED <<company, sres>>
  /\ UNCHANGED <<batchVars, storeVars, heurVars, logVars>>

\* the catch block of discoverNewsPage
Throw(msg, st) ==
  LET st2 == addStep(st, Step(0, "ERR", 0, 0, "Discovery error", "fail", msg, NoUrl))
  IN /\ pc' = "done"
     /\ steps' = st2
     /\ loc' = InitLoc
     /\ result' = DiscoveryResult(company, FALSE, NoUrl, "null", 0, 0, "none", msg, st2)
     /\ UNCHANGED <<company, sres>>
     /\ UNCHANGED <<batchVars, storeVars, heurVars, logVars>>

\* a discoverNewsPage without the early return after a successful search
SearchReturnsContinues(r, st) ==
  /\ steps' = st
  /\ loc' = InitLoc
  /\ sres' = [sres EXCEPT !.search = r]
  /\ pc' = "s2_goto"
  /\ UNCHANGED <<company, result>>
  /\ UNCHANGED <<batchVars, storeVars, heurVars, logVars>>

\* discoverViaSearch returned r
SearchReturns(r, st) ==
  /\ steps' = st
  /\ loc' = InitLoc
  /\ sres' = [sres EXCEPT !.search = r]
  /\ UNCHANGED company
  /\ UNCHANGED <<batchVars, storeVars, heurVars, logVars>>
  /\ IF r.success
     THEN /\ pc' = "done"
          /\ result' = DiscoveryResult(company, TRUE, r.newsPageUrl, r.latestDate,
                                       r.searchResultsCount, r.candidatesChecked,
                                       "search", "", st)
     ELSE /\ pc' = "s2_goto"
          /\ UNCHANGED result

\* a discoverNewsPage that starts again with SEARCH when HOMEPAGE has failed
HomepageReturnsRestarts(r, st) ==
  /\ steps' = st
  /\ loc' = InitLoc
  /\ sres' = [sres EXCEPT !.homepage = r]
  /\ UNCHANGED company
  /\ UNCHANGED <<batchVars, storeVars, heurVars, logVars>>
  /\ IF r.success
     THEN /\ pc' = "done"
          /\ result' = DiscoveryResult(company, TRUE, r.newsPageUrl, r.latestDate,
                                       sres.search.searchResultsCount,
                                       sres.search.candidatesChecked + r.candidatesChecked,
                                       "homepage", "", st)
     ELSE /\ pc' = "s1_goto"
          /\ UNCHANGED result

\* a discoverNewsPage that does not look at homepageResult.success
HomepageReturnsIgnoresSuccess(r, st) ==
  /\ steps' = st
  /\ loc' = InitLoc
  /\ sres' = [sres EXCEPT !.homepage = r]
  /\ pc' = "s3_goto"
  /\ UNCHANGED <<company, result>>
  /\ UNCHANGED <<batchVars, storeVars, heurVars, logVars>>

\* discoverViaHomepage returned r
HomepageReturns(r, st) ==
  /\ steps' = st
  /\ loc' = InitLoc
  /\ sres' = [sres EXCEPT !.homepage = r]
  /\ UNCHANGED company
  /\ UNCHANGED <<batchVars, storeVars, heurVars, logVars>>
  /\ IF r.success
     THEN /\ pc' = "done"
          /\ result' = DiscoveryResult(company, TRUE, r.newsPageUrl, r.latestDate,
                                       sres.search.searchResultsCount,
                                       sres.search.candidatesChecked + r.candidatesChecked,
                                       "homepage", "", st)
     ELSE /\ pc' = "s3_goto"
          /\ UNCHANGED result

\* a discoverNewsPage that lets the failure of the last strategy escape
\* instead of returning the "all methods failed" result
SiteSearchReturnsRaises(r, st) ==
  LET checked == sres.search.candidatesChecked + sres.homepage.candidatesChecked
                   + r.candidatesChecked
  IN /\ steps' = st
     /\ loc' = InitLoc
     /\ sres' = [sres EXCEPT !.site = r]
     /\ UNCHANGED company
     /\ UNCHANGED <<batchVars, storeVars, heurVars, logVars>>
     /\ pc' = IF r.success THEN "done" ELSE "raised"
     /\ result' =
          IF r.success
          THEN DiscoveryResult(company, TRUE, r.newsPageUrl, r.latestDate,
                               sres.search.searchResultsCount, checked, "site-search", "", st)
          ELSE NoResult

\* a discoverNewsPage whose "all methods failed" result carries no error
SiteSearchReturnsWithoutError(r, st) ==
  LET checked == sres.search.candidatesChecked + sres.homepage.candidatesChecked
                   + r.candidatesChecked
  IN /\ steps' = st
     /\ loc' = InitLoc
     /\ sres' = [sres EXCEPT !.site = r]
     /\ UNCHANGED company
     /\ UNCHANGED <<batchVars, storeVars, heurVars, logVars>>
     /\ pc' = "done"
     /\ result' =
          IF r.success
          THEN DiscoveryResult(company, TRUE, r.newsPageUrl, r.latestDate,
                               sres.search.searchResultsCount, checked, "site-search", "", st)
          ELSE DiscoveryResult(company, FALSE, NoUrl, "null",
                               sres.search.searchResultsCount, checked, "none", "", st)

\* discoverViaSiteSearch returned r
SiteSearchReturns(r, st) ==
  LET checked == sres.search.candidatesChecked + sres.homepage.candidatesChecked
                   + r.candidatesChecked
  IN /\ steps' = st
     /\ loc' = InitLoc
     /\ sres' = [sres EXCEPT !.site = r]
     /\ UNCHANGED company
     /\ UNCHANGED <<batchVars, storeVars, heurVars, logVars>>
     /\ pc' = "done"
     /\ result' =
          IF r.success
          THEN DiscoveryResult(company, TRUE, r.newsPageUrl, r.latestDate,
                               sres.search.searchResultsCount, checked, "site-search", "", st)
          ELSE DiscoveryResult(company, FALSE, NoUrl, "null",
                               sres.search.searchResultsCount, checked, "none",
                               "No valid press release pages found (checked search results + homepage + site search)",
                               st)

----------------------------------------------------------------------------
(* Step 1: discoverViaSearch *)

SearchFail(raw, checked, err) == StrategyResult(FALSE, NoUrl, "null", raw, checked, err)

\* the for-loop over candidates moves on, or falls out of the loop
SearchNextCandidate(st, l) ==
  IF l.i < Len(l.candidates)
  THEN Goto("s1_nav", st, [l EXCEPT !.i = @ + 1])
  ELSE SearchReturns(SearchFail(l.rawCount, l.candidatesChecked,
                                "No valid press release pages found in search searchResults"), st)

\* a candidate list that starts with the root URLs of the articles
SearchBuildCandidatesRootsFirst(searchResults) ==
  LET domain == getDomainFromUrl(company.website)
      completeResults ==
        FilterSeq(searchResults, {r \in Range(searchResults) :
                              r.title # "" /\ r.url # NoUrl /\ r.snippet # ""})
      newsRelatedUrls == filterNewsRelatedUrls(completeResults, domain)
      cat == categorizeUrls(newsRelatedUrls)
      rootUrls == Slice(extractRootUrlsFromArticles(cat.articles), maxCandidatesToCheck)
  IN [candidates |-> rootUrls \o Slice(cat.listingPages, maxCandidatesToCheck - Len(rootUrls)),
      nNews |-> Len(newsRelatedUrls),
      nListing |-> Len(cat.listingPages),
      nArticles |-> Len(cat.articles)]

\* Steps 1B, 1C and the candidate list, once searchResults is known
SearchBuildCandidates(searchResults) ==
  LET domain == getDomainFromUrl(company.website)
      completeResults ==
        FilterSeq(searchResults, {r \in Range(searchResults) :
                              r.title # "" /\ r.url # NoUrl /\ r.snippet # ""})
      newsRelatedUrls == filterNewsRelatedUrls(completeResults, domain)
      cat == categorizeUrls(newsRelatedUrls)
      first == Slice(cat.listingPages, maxCandidatesToCheck)
      rootUrls == extractRootUrlsFromArticles(cat.articles)
      remaining == maxCandidatesToCheck - Len(first)
  IN [candidates |-> IF Len(cat.articles) > 0 THEN first \o Slice(rootUrls, remaining)
                     ELSE first,
      nNews |-> Len(newsRelatedUrls),
      nListing |-> Len(cat.listingPages),
      nArticles |-> Len(cat.articles)]

SearchAfterResults(searchResults, st) ==
  IF Len(searchResults) = 0
  THEN SearchReturns(SearchFail(0, 0, "No search searchResults found"), st)
  ELSE LET b == SearchBuildCandidates(searchResults)
           st2 == addStep(addStep(st,
                    Step(1, "1B", 0, 0, "Filter by domain", "info", "on domain", NoUrl)),
                    Step(1, "1C", 0, 0, "Categorize URLs", "info", "categorized", NoUrl))
           l == [loc EXCEPT !.candidates = b.candidates, !.rawCount = Len(searchResults),
                            !.i = 1, !.candidatesChecked = 0]
       IN IF b.candidates = <<>>
          THEN SearchReturns(SearchFail(Len(searchResults), 0,
                               "No valid press release pages found in search searchResults"), st2)
          ELSE Goto("s1_nav", st2, l)

\* activePage(), addStep '1' and the navigation to the search engine
SearchGoto ==
  /\ pc = "s1_goto"
  /\ \/ /\ MayThrow /\ Threw
        /\ Throw("No active page", steps)
        /\ UNCHANGED <<calls, lastCall, prevCall>>
     \/ LET st == addStep(steps, Step(1, "1", 0, 0, "DuckDuckGo search", "info", "query", DdgUrl))
        IN /\ Made(<<Call("goto", DdgUrl, 200, 1)>>)
           /\ \/ MayThrow /\ Threw /\ Throw("goto failed", st)
              \/ NoThrow /\ Goto("s1_observe", st, loc)

\* observe() on the result page and the extraction of hrefs
SearchObserve ==
  /\ pc = "s1_observe"
  /\ Made(<<Call("observe", DdgUrl, 0, 1)>>)
  /\ \/ MayThrow /\ Threw /\ Throw("observe failed", steps)
     \/ /\ NoFault
        /\ \E observedLinks \in {o \in SearchObserved : CanServe(o)} : served' = Served(observedLinks) /\
             LET seen == Slice(observedLinks, maxSearchResults)
                 extractedResults ==
                   FilterSeq(seen, {r \in Range(seen) :
                                      r.url # NoUrl /\ "duckduckgo" \notin Range(r.url.host)})
             IN IF Len(extractedResults) > 0
                THEN SearchAfterResults(extractedResults,
                       addStep(steps, Step(1, "1A", 0, 0, "Extract search searchResults",
                                           "success", "via observe", NoUrl)))
                ELSE Goto("s1_extract", steps,
                          [loc EXCEPT !.observedAny = Len(observedLinks) > 0])

\* extract(SearchResultsSchema): the fallback of observe()
SearchExtract ==
  /\ pc = "s1_extract"
  /\ Made(<<Call("extract", DdgUrl, 0, 1)>>)
  /\ \/ MayThrow /\ Threw /\ Throw("extract failed", steps)
     \/ /\ NoFault
        /\ \E searchResults \in {o \in SearchExtracted : CanServe(o)} : served' = Served(searchResults) /\
             IF loc.observedAny
             THEN IF searchResults = NoResultsField
                  THEN Throw("Cannot read properties of undefined", steps)
                  ELSE SearchAfterResults(searchResults,
                         addStep(steps, Step(1, "1A", 0, 0, "Extract search searchResults",
                                             "success", "via extract", NoUrl)))
             ELSE IF searchResults = NoResultsField \/ Len(searchResults) = 0
                  THEN SearchReturns(
                         SearchFail(0, 0, "No search searchResults found - extract() returned empty"),
                         addStep(steps, Step(1, "1A", 0, 0, "Extract search searchResults",
                                             "fail", "No searchResults found", NoUrl)))
                  ELSE SearchAfterResults(searchResults,
                         addStep(steps, Step(1, "1A", 0, 0, "Extract search searchResults",
                                             "success", "found", NoUrl)))

\* Step 1D: candidatesChecked++ and the first navigation to the candidate
SearchCheckCandidate ==
  /\ pc = "s1_nav"
  /\ LET candidate == loc.candidates[loc.i]
         n == loc.candidatesChecked + 1
         l == [loc EXCEPT !.candidatesChecked = n]
     IN \/ /\ MayThrow /\ Threw
           /\ Made(<<Call("goto", candidate.url, -1, 1)>>)
           /\ SearchNextCandidate(steps, l)
        \/ /\ \E status \in Statuses :
                /\ Answers(status)
                /\ Made(<<Call("goto", candidate.url, status, 1)>>)
                /\ IF Failed(status)
                   THEN SearchNextCandidate(
                          addStep(steps, Step(1, "1D", 0, n, "Check candidate", "skip",
                                              "HTTP", candidate.url)), l)
                   ELSE Goto("s1_verify", steps, l)

\* a verification whose try has no catch: an error of the oracle leaves the
\* strategy
SearchVerifyCandidateRaises ==
  /\ pc = "s1_verify"
  /\ LET candidate == loc.candidates[loc.i]
         n == loc.candidatesChecked
     IN /\ Made(<<Call("verify", candidate.url, 0, 1)>>)
        /\ \/ MayThrow /\ Threw /\ Throw("extract failed", steps)
           \/ /\ NoThrow
              /\ \E verification \in Verifications :
                   IF Accepted(verification)
                   THEN Goto("s1_validate", steps,
                             [loc EXCEPT !.verification = verification])
                   ELSE SearchNextCandidate(
                             addStep(steps, Step(1, "1D", 0, n, "Verify candidate", "fail",
                                                 "explanation", candidate.url)), loc)

\* Step 1D: extract(PressReleaseVerificationSchema) on the candidate page
SearchVerifyCandidate ==
  /\ pc = "s1_verify"
  /\ LET candidate == loc.candidates[loc.i]
         n == loc.candidatesChecked
     IN /\ Made(<<Call("verify", candidate.url, 0, 1)>>)
        /\ \/ MayThrow /\ Threw /\ SearchNextCandidate(steps, loc)
           \/ /\ NoThrow
              /\ \E verification \in Verifications :
                   IF Accepted(verification)
                   THEN Goto("s1_validate", steps,
                             [loc EXCEPT !.verification = verification])
                   ELSE SearchNextCandidate(
                             addStep(steps, Step(1, "1D", 0, n, "Verify candidate", "fail",
                                                 "explanation", candidate.url)), loc)

\* a loop that records the validated candidate and goes on to the next one
SearchValidateCandidateContinues ==
  /\ pc = "s1_validate"
  /\ LET candidate == loc.candidates[loc.i]
         n == loc.candidatesChecked
     IN \/ /\ MayThrow /\ Threw
           /\ Made(<<Call("goto", candidate.url, -1, 1)>>)
           /\ SearchNextCandidate(steps, loc)
        \/ /\ \E validationStatus \in Statuses :
                /\ Answers(validationStatus)
                /\ Made(<<Call("goto", candidate.url, validationStatus, 1)>>)
                /\ IF Failed(validationStatus)
                   THEN SearchNextCandidate(
                          addStep(steps, Step(1, "1D", 0, n, "Verify candidate", "fail",
                                              "Validation failed", candidate.url)), loc)
                   ELSE SearchNextCandidate(
                          addStep(steps, Step(1, "1D", 0, n, "Verify candidate", "success",
                                              "explanation", candidate.url)), loc)

\* Step 1D: the second navigation to the candidate
SearchValidateCandidate ==
  /\ pc = "s1_validate"
  /\ LET candidate == loc.candidates[loc.i]
         n == loc.candidatesChecked
     IN \/ /\ MayThrow /\ Threw
           /\ Made(<<Call("goto", candidate.url, -1, 1)>>)
           /\ SearchNextCandidate(steps, loc)
        \/ /\ \E validationStatus \in Statuses :
                /\ Answers(validationStatus)
                /\ Made(<<Call("goto", candidate.url, validationStatus, 1)>>)
                /\ IF Failed(validationStatus)
                   THEN SearchNextCandidate(
                          addStep(steps, Step(1, "1D", 0, n, "Verify candidate", "fail",
                                              "Validation failed", candidate.url)), loc)
                   ELSE SearchReturns(
                          StrategyResult(TRUE, candidate.url, loc.verification.latestDate,
                                         loc.rawCount, n, ""),
                          addStep(steps, Step(1, "1D", 0, n, "Verify candidate", "success",
                                              "explanation", candidate.url)))

----------------------------------------------------------------------------
(* Step 2: discoverViaHomepage *)

\* a homepage link {text, url}
HomeLink(t, u) == MkLink(t, u, "")

\* what observe() + extractHrefFromElement + normalizeUrl can yield on the
\* homepage (NoHref: no href, or an anchor-only href)
HomeObserved ==
  { <<>>,
    <<NoHref>>,
    <<HomeLink("About us", AboutUrl)>>,
    <<HomeLink("News", OffsiteUrl)>>,
    <<HomeLink("News", OffsiteUrl), HomeLink("News", NewsUrl), HomeLink("News", OffsiteUrl)>>,
    <<HomeLink("Press Releases", PressUrl), HomeLink("Acme announces Q1 results", ArticleUrl),
      HomeLink("News", NewsUrl)>> }

\* LinkRankingSchema.rankedLinks entries
Ranked(u, sc) == [url |-> u, score |-> sc]

\* the rankings the oracle can answer for the links shown to it
Rankings(links) ==
  LET n == Len(links)
  IN {<<>>}
     \cup {[i \in 1..n |-> Ranked(links[i].url, f[i])] : f \in [1..n -> {5, 9}]}
     \cup {<<Ranked(links[n].url, 9), Ranked(AboutUrl, 9)>>}
     \cup {<<Ranked(links[1].url, 5), Ranked(links[n].url, 9), Ranked(links[1].url, 9)>>}

\* [...rankedLinks].sort((a, b) => b.score - a.score), a stable sort
RECURSIVE SortByScoreFrom(_, _)
SortByScoreFrom(r, sc) ==
  IF sc < 1 THEN <<>>
  ELSE FilterSeq(r, {e \in Range(r) : e.score = sc}) \o SortByScoreFrom(r, sc - 1)

\* a sort on ascending score
SortByScoreAscending(r) == Reversed(SortByScoreFrom(r, 10))

SortByScore(r) == SortByScoreFrom(r, 10)

\* urlToLink.get(url): the Map keeps the last link of a URL
UrlToLink(links, u) ==
  LET last == CHOOSE i \in 1..Len(links) :
                /\ links[i].url = u
                /\ \A j \in (i + 1)..Len(links) : links[j].url # u
  IN links[last]

\* a reordering that keeps only the links the answer names
RankLinksDropsUnranked(filteredLinks, ranking) ==
  LET sortedRanking == SortByScore(ranking)
      urls == {filteredLinks[i].url : i \in 1..Len(filteredLinks)}
      known == FilterSeq(sortedRanking, {e \in Range(sortedRanking) : e.url \in urls})
  IN [i \in 1..Len(known) |-> UrlToLink(filteredLinks, known[i].url)]

\* the reordering of Step 2C
RankLinks(filteredLinks, ranking) ==
  LET sortedRanking == SortByScore(ranking)
      urls == {filteredLinks[i].url : i \in 1..Len(filteredLinks)}
      known == FilterSeq(sortedRanking, {e \in Range(sortedRanking) : e.url \in urls})
      mapped == [i \in 1..Len(known) |-> UrlToLink(filteredLinks, known[i].url)]
      rankedUrls == {ranking[i].url : i \in 1..Len(ranking)}
  IN mapped \o FilterSeq(filteredLinks,
                         {l \in Range(filteredLinks) : l.url \notin rankedUrls})

\* the inline filter of Step 2B
HomepageDomainFilter(uniqueLinks, domain) ==
  LET keep(l) ==
        /\ isOnDomain(l.url, domain)
        /\ ~UrlIsFile(l.url)
        /\ (UrlKw(l.url) \cup KwOfToken(l.title))
             \cap {"news", "press", "media", "blog", "updates", "investor", "announcement"}
             # {}
  IN FilterSeq(uniqueLinks, {l \in Range(uniqueLinks) : keep(l)})

\* links deduplicated by URL, first occurrence kept
RECURSIVE DedupByUrl(_, _)
DedupByUrl(links, seenUrls) ==
  IF links = <<>> THEN <<>>
  ELSE IF Head(links).url \in seenUrls THEN DedupByUrl(Tail(links), seenUrls)
       ELSE <<Head(links)>> \o DedupByUrl(Tail(links), seenUrls \cup {Head(links).url})

HomepageFail(checked, err) == StrategyResult(FALSE, NoUrl, "null", 0, checked, err)

HomepageNextCandidate(st, l) ==
  IF l.i < Len(l.candidates)
  THEN Goto("s2_nav", st, [l EXCEPT !.i = @ + 1])
  ELSE HomepageReturns(HomepageFail(l.candidatesChecked,
                                    "No valid press release pages found on homepage"), st)

\* activePage(), addStep '2' and the navigation to the homepage
HomepageGoto ==
  /\ pc = "s2_goto"
  /\ \/ /\ MayThrow /\ Threw
        /\ Throw("No active page", steps)
        /\ UNCHANGED <<calls, lastCall, prevCall>>
     \/ LET st == addStep(steps, Step(2, "2", 0, 0, "Navigate to homepage", "info",
                                      "website", companyUrl(company)))
        IN /\ Made(<<Call("goto", companyUrl(company), 200, 2)>>)
           /\ \/ /\ MayThrow /\ Threw
                 /\ HomepageReturns(
                      HomepageFail(0, "Failed to navigate to homepage"),
                      addStep(st, Step(2, "2", 0, 0, "Navigate to homepage", "fail",
                                       "error", NoUrl)))
              \/ /\ NoThrow
                 /\ Goto("s2_observe",
                         addStep(st, Step(2, "2A", 0, 0, "Expand nav dropdowns", "skip",
                                          "Skipping", NoUrl)), loc)

\* Step 2B once validLinks is known
HomepageAfterLinks(validLinks, st) ==
  LET domain == getDomainFromUrl(company.website)
      uniqueLinks == DedupByUrl(validLinks, {})
      domainFilteredLinks == HomepageDomainFilter(uniqueLinks, domain)
      cat == categorizeUrls(domainFilteredLinks)
      prioritized == cat.listingPages \o cat.articles
      st2 == addStep(addStep(st,
               Step(2, "2B", 0, 0, "Filter by domain/keywords", "info", "match", NoUrl)),
               Step(2, "2B", 0, 0, "Categorize URLs", "info", "categorized", NoUrl))
  IN IF Len(uniqueLinks) = 0
     THEN HomepageReturns(
            HomepageFail(0, "No news/press links found on homepage"),
            addStep(st, Step(2, "2B", 0, 0, "Extract nav links", "info",
                             "No valid links found", NoUrl)))
     ELSE IF Len(prioritized) = 0
          THEN Goto("s2_rank",
                    addStep(st2, Step(2, "2B", 0, 0, "Filter fallback", "info",
                                      "Using all unique links", NoUrl)),
                    [loc EXCEPT !.candidates = uniqueLinks])
          ELSE Goto("s2_rank", st2, [loc EXCEPT !.candidates = prioritized])

\* observe() on the homepage and the extraction of hrefs
HomepageObserve ==
  /\ pc = "s2_observe"
  /\ Made(<<Call("observe", companyUrl(company), 0, 2)>>)
  /\ \/ MayThrow /\ Threw /\ HomepageAfterLinks(<<>>, steps)
     \/ /\ NoFault
        /\ \E actions \in {o \in HomeObserved : CanServe(o)} : served' = Served(actions) /\
             HomepageAfterLinks(FilterSeq(actions, {a \in Range(actions) : a.url # NoUrl}),
                                steps)

\* Step 2C: extract(LinkRankingSchema)
HomepageRank ==
  /\ pc = "s2_rank"
  /\ Made(<<Call("extract", companyUrl(company), 0, 2)>>)
  /\ LET filteredLinks == loc.candidates
     IN \/ /\ MayThrow /\ Threw
           /\ Goto("s2_nav",
                   addStep(steps, Step(2, "2C", 0, 0, "Rank links", "skip",
                                       "Ranking failed", NoUrl)),
                   [loc EXCEPT !.i = 1])
        \/ /\ NoThrow
           /\ \E ranking \in Rankings(filteredLinks) :
                IF Len(ranking) > 0
                THEN Goto("s2_nav",
                          addStep(steps, Step(2, "2C", 0, 0, "Rank links", "success",
                                              "Ranked", NoUrl)),
                          [loc EXCEPT !.candidates = RankLinks(filteredLinks, ranking),
                                      !.i = 1])
                ELSE Goto("s2_nav",
                          addStep(steps, Step(2, "2C", 0, 0, "Rank links", "info",
                                              "empty ranking", NoUrl)),
                          [loc EXCEPT !.i = 1])

\* Step 2D: candidatesChecked++ and the first navigation to the link
HomepageCheckCandidate ==
  /\ pc = "s2_nav"
  /\ LET link == loc.candidates[loc.i]
         n == loc.candidatesChecked + 1
         l == [loc EXCEPT !.candidatesChecked = n]
     IN \/ /\ MayThrow /\ Threw
           /\ Made(<<Call("goto", link.url, -1, 2)>>)
           /\ HomepageNextCandidate(steps, l)
        \/ /\ \E status \in Statuses :
                /\ Answers(status)
                /\ Made(<<Call("goto", link.url, status, 2)>>)
                /\ IF Failed(status)
                   THEN HomepageNextCandidate(
                          addStep(steps, Step(2, "2D", 0, n, "Check link", "skip",
                                              "HTTP", link.url)), l)
                   ELSE Goto("s2_verify", steps, l)

\* Step 2D: extract(PressReleaseVerificationSchema) on the link's page
HomepageVerifyCandidate ==
  /\ pc = "s2_verify"
  /\ LET link == loc.candidates[loc.i]
         n == loc.candidatesChecked
     IN /\ Made(<<Call("verify", link.url, 0, 2)>>)
        /\ \/ MayThrow /\ Threw /\ HomepageNextCandidate(steps, loc)
           \/ /\ NoThrow
              /\ \E verification \in Verifications :
                   IF Accepted(verification)
                   THEN Goto("s2_validate", steps,
                             [loc EXCEPT !.verification = verification])
                   ELSE HomepageNextCandidate(
                             addStep(steps, Step(2, "2D", 0, n, "Verify link", "fail",
                                                 "explanation", link.url)), loc)

\* Step 2D: the second navigation to the link
HomepageValidateCandidate ==
  /\ pc = "s2_validate"
  /\ LET link == loc.candidates[loc.i]
         n == loc.candidatesChecked
     IN \/ /\ MayThrow /\ Threw
           /\ Made(<<Call("goto", link.url, -1, 2)>>)
           /\ HomepageNextCandidate(steps, loc)
        \/ /\ \E validationStatus \in Statuses :
                /\ Answers(validationStatus)
                /\ Made(<<Call("goto", link.url, validationStatus, 2)>>)
                /\ IF Failed(validationStatus)
                   THEN HomepageNextCandidate(
                          addStep(steps, Step(2, "2D", 0, n, "Verify link", "fail",
                                              "Validation failed", link.url)), loc)
                   ELSE HomepageReturns(
                          StrategyResult(TRUE, link.url, loc.verification.latestDate, 0, n, ""),
                          addStep(steps, Step(2, "2D", 0, n, "Verify link", "success",
                                              "explanation", link.url)))

----------------------------------------------------------------------------
(* Step 3: discoverViaSiteSearch *)

searchTerms == <<"news", "press releases", "press", "newsroom", "media">>

\* what observe() + extractHrefFromElement + normalizeUrl can yield on a
\* result page of the site's own search
SiteObserved ==
  { <<>>,
    <<HomeLink("News", OffsiteUrl), NoHref>>,
    <<HomeLink("News", NewsUrl)>>,
    <<HomeLink("About us", AboutUrl), HomeLink("News", NewsUrl),
      HomeLink("About us", AboutUrl), HomeLink("Press Releases", PressUrl)>> }

SiteSearchFail(checked, err) == StrategyResult(FALSE, NoUrl, "null", 0, checked, err)

\* page.url() on the result page the site's search shows for the term t
SiteResultsUrl(c, t) == MkUrl(companyUrl(c).host, <<"search", searchTerms[t]>>, FALSE)

\* currentUrl === companyUrl || currentUrl === companyUrl + '/'
IsCompanyUrl(currentUrl, c) ==
  currentUrl = companyUrl(c) \/ currentUrl = [companyUrl(c) EXCEPT !.trail = TRUE]

\* a loop over searchTerms that ends at the first term that found nothing
SiteSearchNextTermGivesUp(st, l) ==
  SiteSearchReturns(
    SiteSearchFail(l.totalCandidatesChecked,
                   "No valid press release pages found via site search"), st)

\* the for-loop over searchTerms moves on, or falls out of the loop
SiteSearchNextTerm(st, l) ==
  IF l.termIndex < Len(searchTerms)
  THEN Goto("s3_act", st, [l EXCEPT !.termIndex = @ + 1, !.candidates = <<>>, !.i = 0,
                                    !.candidatesChecked = 0,
                                    !.verification = NoVerification])
  ELSE SiteSearchReturns(
         SiteSearchFail(l.totalCandidatesChecked,
                        "No valid press release pages found via site search"),
         IF l.searchSucceeded THEN st
         ELSE addStep(st, Step(3, "3B", 0, 0, "Use search bar", "fail",
                               "No search bar found", NoUrl)))

\* the inner for-loop over uniqueLinks moves on, or falls out of the loop
SiteSearchNextCandidate(st, l) ==
  IF l.i < Min(Len(l.candidates), maxCandidatesToCheck)
  THEN Goto("s3_nav", st, [l EXCEPT !.i = @ + 1])
  ELSE Goto("s3_back", st, l)

\* activePage(), addStep '3' and the navigation to the homepage
SiteSearchGoto ==
  /\ pc = "s3_goto"
  /\ \/ /\ MayThrow /\ Threw
        /\ Throw("No active page", steps)
        /\ UNCHANGED <<calls, lastCall, prevCall>>
     \/ LET st == addStep(steps, Step(3, "3", 0, 0, "Navigate to homepage for search",
                                      "info", "website", companyUrl(company)))
        IN /\ Made(<<Call("goto", companyUrl(company), 200, 3)>>)
           /\ \/ /\ MayThrow /\ Threw
                 /\ SiteSearchReturns(
                      SiteSearchFail(0, "Failed to navigate to homepage"),
                      addStep(st, Step(3, "3", 0, 0, "Navigate to homepage", "fail",
                                       "error", NoUrl)))
              \/ /\ NoThrow
                 /\ Goto("s3_find",
                         addStep(st, Step(3, "3A", 0, 0, "Find search", "info",
                                          "Looking for search icon", NoUrl)),
                         [loc EXCEPT !.pageUrl = companyUrl(company)])

\* Step 3A: observe() for the search icon
SiteSearchFind ==
  /\ pc = "s3_find"
  /\ Made(<<Call("observe", companyUrl(company), 0, 3)>>)
  /\ LET notFound ==
           SiteSearchReturns(
             SiteSearchFail(0, "Could not find site search icon"),
             addStep(steps, Step(3, "3A", 0, 0, "Find search", "fail",
                                 "No search icon found", NoUrl)))
     IN \/ MayThrow /\ Threw /\ notFound
        \/ NoThrow /\ notFound
        \/ /\ NoFault
           /\ served < ItemLimit
           /\ served' = served + 1
           /\ Goto("s3_open",
                   addStep(steps, Step(3, "3A", 0, 0, "Find search", "success",
                                       "Found", NoUrl)), loc)

\* Step 3A-2: click on the search icon
SiteSearchOpen ==
  /\ pc = "s3_open"
  /\ Made(<<Call("click", companyUrl(company), 0, 3)>>)
  /\ \/ /\ MayThrow /\ Threw
        /\ SiteSearchReturns(
             SiteSearchFail(0, "Could not open site search"),
             addStep(steps, Step(3, "3A-2", 0, 0, "Open search", "fail",
                                 "Could not click search icon", NoUrl)))
     \/ /\ NoThrow
        /\ Goto("s3_act",
                addStep(steps, Step(3, "3A-2", 0, 0, "Open search", "success",
                                    "Clicked search icon", NoUrl)),
                [loc EXCEPT !.termIndex = 1])

\* Step 3B: act() types the term; then the check that the URL changed.
\* The page is left where it was or shows the results for the term; loc.pageUrl
\* is page.url(), followed from the navigation of discoverViaSiteSearch on.
\* reopenSearch() swallows its errors and its result is not used.
SiteSearchSubmit ==
  /\ pc = "s3_act"
  /\ LET t == loc.termIndex
         l == [loc EXCEPT !.searchSucceeded = TRUE]
         st == addStep(steps, Step(3, "3B", t, 0, "Submit search", "success",
                                   "Searched", NoUrl))
     IN \/ /\ MayThrow /\ Threw
           /\ Made(<<Call("act", companyUrl(company), -1, 3)>>)
           /\ SiteSearchNextTerm(steps, loc)
        \/ /\ NoThrow
           /\ Made(<<Call("act", companyUrl(company), 0, 3)>>)
           /\ SiteSearchNextTerm(steps, loc)
        \/ /\ NoFault
           /\ served < ItemLimit
           /\ served' = served + 1
           /\ \E currentUrl \in {loc.pageUrl, SiteResultsUrl(company, t)} :
                IF IsCompanyUrl(currentUrl, company)
                THEN /\ Made(<<Call("act", companyUrl(company), 0, 3),
                               Call("observe", companyUrl(company), 0, 3)>>)
                     /\ SiteSearchNextTerm(
                          addStep(st, Step(3, "3B", t, 0, "Check URL", "skip",
                                           "URL unchanged after search", NoUrl)),
                          [l EXCEPT !.pageUrl = currentUrl])
                ELSE /\ Made(<<Call("act", companyUrl(company), 0, 3)>>)
                     /\ Goto("s3_results", st, [l EXCEPT !.pageUrl = currentUrl])

\* Step 3C: observe() on the result page, hrefs, same-site filter, dedup
SiteSearchObserve ==
  /\ pc = "s3_results"
  /\ Made(<<Call("observe", companyUrl(company), 0, 3)>>)
  /\ LET t == loc.termIndex
         domain == getDomainFromUrl(company.website)
     IN \/ MayThrow /\ Threw /\ SiteSearchNextTerm(steps, loc)
        \/ /\ NoFault
           /\ \E actions \in {o \in SiteObserved : CanServe(o)} : served' = Served(actions) /\
                LET candidateLinks ==
                      FilterSeq(actions, {a \in Range(actions) :
                                            a.url # NoUrl /\ isOnDomain(a.url, domain)})
                    uniqueLinks == DedupByUrl(candidateLinks, {})
                IN IF Len(actions) = 0
                   THEN Goto("s3_back",
                             addStep(steps, Step(3, "3C", t, 0, "Extract results", "skip",
                                                 "No results", NoUrl)), loc)
                   ELSE LET st == addStep(steps, Step(3, "3C", t, 0, "Extract results",
                                                      "success", "Found", NoUrl))
                        IN IF Len(uniqueLinks) = 0
                           THEN Goto("s3_back",
                                     addStep(st, Step(3, "3C", t, 0, "Filter candidates",
                                                      "skip", "No valid links found", NoUrl)),
                                     loc)
                           ELSE Goto("s3_nav", st,
                                     [loc EXCEPT !.candidates = uniqueLinks, !.i = 1,
                                                 !.candidatesChecked = 0])

\* back to the homepage before the next term, then reopenSearch()
SiteSearchBack ==
  /\ pc = "s3_back"
  /\ \/ /\ MayThrow /\ Threw
        /\ Made(<<Call("goto", companyUrl(company), -1, 3)>>)
        /\ SiteSearchNextTerm(steps, loc)
     \/ /\ NoThrow
        /\ Made(<<Call("goto", companyUrl(company), 200, 3),
                  Call("observe", companyUrl(company), 0, 3)>>)
        /\ SiteSearchNextTerm(steps, [loc EXCEPT !.pageUrl = companyUrl(company)])

\* Step 3D: the counters and the first navigation to the candidate
SiteSearchCheckCandidate ==
  /\ pc = "s3_nav"
  /\ LET link == loc.candidates[loc.i]
         n == loc.candidatesChecked + 1
         t == loc.termIndex
         l == [loc EXCEPT !.candidatesChecked = n, !.totalCandidatesChecked = @ + 1]
         arrived == [l EXCEPT !.pageUrl = link.url]
     IN \/ /\ MayThrow /\ Threw
           /\ Made(<<Call("goto", link.url, -1, 3)>>)
           /\ SiteSearchNextCandidate(steps, l)
        \/ /\ \E status \in Statuses :
                /\ Answers(status)
                /\ Made(<<Call("goto", link.url, status, 3)>>)
                /\ IF Failed(status)
                   THEN SiteSearchNextCandidate(
                          addStep(steps, Step(3, "3D", t, n, "Check candidate", "skip",
                                              "HTTP", link.url)), arrived)
                   ELSE Goto("s3_verify", steps, arrived)

\* Step 3D: extract(PressReleaseVerificationSchema) on the candidate page
SiteSearchVerifyCandidate ==
  /\ pc = "s3_verify"
  /\ LET link == loc.candidates[loc.i]
         n == loc.candidatesChecked
         t == loc.termIndex
     IN /\ Made(<<Call("verify", link.url, 0, 3)>>)
        /\ \/ MayThrow /\ Threw /\ SiteSearchNextCandidate(steps, loc)
           \/ /\ NoThrow
              /\ \E verification \in Verifications :
                   IF Accepted(verification)
                   THEN Goto("s3_validate", steps,
                             [loc EXCEPT !.verification = verification])
                   ELSE SiteSearchNextCandidate(
                             addStep(steps, Step(3, "3D", t, n, "Verify candidate", "fail",
                                                 "explanation", link.url)), loc)

\* Step 3D: the second navigation to the candidate
SiteSearchValidateCandidate ==
  /\ pc = "s3_validate"
  /\ LET link == loc.candidates[loc.i]
         n == loc.candidatesChecked
         t == loc.termIndex
     IN \/ /\ MayThrow /\ Threw
           /\ Made(<<Call("goto", link.url, -1, 3)>>)
           /\ SiteSearchNextCandidate(steps, loc)
        \/ /\ \E validationStatus \in Statuses :
                /\ Answers(validationStatus)
                /\ Made(<<Call("goto", link.url, validationStatus, 3)>>)
                /\ IF Failed(validationStatus)
                   THEN SiteSearchNextCandidate(
                          addStep(steps, Step(3, "3D", t, n, "Verify candidate", "fail",
                                              "Validation failed", link.url)), loc)
                   ELSE SiteSearchReturns(
                          StrategyResult(TRUE, link.url, loc.verification.latestDate, 0,
                                         loc.totalCandidatesChecked, ""),
                          addStep(steps, Step(3, "3D", t, n, "Verify candidate", "success",
                                              "explanation", link.url)))

----------------------------------------------------------------------------
(* One run of discoverNewsPage *)

\* the state discoverNewsPage(stagehand, c, config) starts in, with f external
\* calls already failed and a answers with content already given
StartDiscovery(c, f, a) ==
  /\ pc' = "s1_goto"
  /\ company' = c
  /\ steps' = <<>>
  /\ loc' = InitLoc
  /\ sres' = [search |-> NotRun, homepage |-> NotRun, site |-> NotRun]
  /\ result' = NoResult
  /\ faults' = f
  /\ served' = a
  /\ calls' = [ph \in 1..3 |-> 0]
  /\ lastCall' = NoCall
  /\ prevCall' = NoCall

InitOrch(c) ==
  /\ pc = "s1_goto"
  /\ company = c
  /\ steps = <<>>
  /\ loc = InitLoc
  /\ sres = [search |-> NotRun, homepage |-> NotRun, site |-> NotRun]
  /\ result = NoResult
  /\ faults = 0
  /\ served = 0
  /\ calls = [ph \in 1..3 |-> 0]
  /\ lastCall = NoCall
  /\ prevCall = NoCall

\* two executions of the program can run at the same time against one bucket
Uploaders == {1, 2}

\* no upload is under way
Idle == [entry |-> {}, attempt |-> 0, n |-> 0]

NoUploads ==
  /\ uploads = [u \in Uploaders |-> Idle]
  /\ completed = <<>>
  /\ got = {}

\* what a heuristic stage has made of its links before it ran
NoOut ==
  [newsRelatedUrls |-> <<>>, listingPages |-> <<>>, articles |-> <<>>, rootUrls |-> <<>>,
   candidates |-> <<>>, filteredLinks |-> <<>>, rankedLinks |-> <<>>, rankFailed |-> FALSE]

\* no heuristic stage is looked at on its own
NoHeur ==
  /\ hpc = "none"
  /\ hlinks = <<>>
  /\ hranking = <<>>
  /\ out = NoOut

\* no session of the persistence is going on
NoLog ==
  /\ lpc = "none"
  /\ logBuffer = <<>>
  /\ logBatchIndex = 0
  /\ totalLogCount = 0
  /\ flushTimer = FALSE
  /\ pendingUploads = {}
  /\ awaited = {}
  /\ syncUpload = {}
  /\ objects = {}
  /\ requests = {}

\* no session: discoverNewsPage is called directly
NoBatch ==
  /\ NoUploads
  /\ NoLog
  /\ NoHeur
  /\ session = 0
  /\ enabled = FALSE
  /\ batch = <<>>
  /\ idx = 0
  /\ bpc = "none"
  /\ results = <<>>
  /\ cache = {}
  /\ storeIdx = 0
  /\ s3faults = 0
  /\ callsFor = <<>>

Init == (\E c \in Targets : InitOrch(c)) /\ NoBatch

discoverViaSearch ==
  \/ SearchGoto
  \/ SearchObserve
  \/ SearchExtract
  \/ SearchCheckCandidate
  \/ SearchVerifyCandidate
  \/ SearchValidateCandidate

discoverViaHomepage ==
  \/ HomepageGoto
  \/ HomepageObserve
  \/ HomepageRank
  \/ HomepageCheckCandidate
  \/ HomepageVerifyCandidate
  \/ HomepageValidateCandidate

discoverViaSiteSearch ==
  \/ SiteSearchGoto
  \/ SiteSearchFind
  \/ SiteSearchOpen
  \/ SiteSearchSubmit
  \/ SiteSearchObserve
  \/ SiteSearchBack
  \/ SiteSearchCheckCandidate
  \/ SiteSearchVerifyCandidate
  \/ SiteSearchValidateCandidate

discoverNewsPage ==
  \/ discoverViaSearch
  \/ discoverViaHomepage
  \/ discoverViaSiteSearch

----------------------------------------------------------------------------
(* The result cache (StagehandS3Persistence) and testNewsDiscovery *)

\* domain.replace(/^www\./, '').toLowerCase() on a website string
CacheKey(w) ==
  IF w.scheme = "" /\ w.www = "www."
  THEN MkSite("", "", LowerSeq(w.host))
  ELSE MkSite(w.scheme, ToLower(w.www), LowerSeq(w.host))

\* domainResult of uploadDiscoveryResults
DomainResult(r, sid) ==
  [domain |-> CacheKey(r.companyWebsite), companyName |-> r.companyName,
   newsPageUrl |-> r.newsPageUrl, latestDate |-> r.latestDate,
   discoveryMethod |-> r.discoveryMethod, discoveredAt |-> sid, sessionId |-> sid]

\* a read under a key that no upload writes
StoredElsewhere(key) == {}

\* the object stored under `${resultsPrefix}/${key}.json`, if any
Stored(key) == {e \in cache : e.domain = key}

\* a store that fills in an object the key already has: the URL found first
\* is kept
PutMergesPrior(e) ==
  (cache \ Stored(e.domain))
    \cup {IF Stored(e.domain) = {} THEN e
          ELSE [e EXCEPT !.newsPageUrl = (CHOOSE x \in Stored(e.domain) : TRUE).newsPageUrl]}

\* a store that adds the object and keeps the one the key had
PutKeepsPrior(e) == cache \cup {e}

\* PutObject of a per-domain result: the object of that key is replaced
PutDomainResult(e) == (cache \ Stored(e.domain)) \cup {e}

\* a cached result that keeps the method the entry was found with
CachedResultKeepsMethod(e) ==
  [companyName |-> e.companyName, companyWebsite |-> e.domain, success |-> TRUE,
   newsPageUrl |-> e.newsPageUrl, latestDate |-> e.latestDate, searchResultsCount |-> 0,
   candidatesChecked |-> 0, discoveryMethod |-> e.discoveryMethod, error |-> "",
   steps |-> <<>>]

\* the result testNewsDiscovery builds from a cache hit
CachedResult(e) ==
  [companyName |-> e.companyName, companyWebsite |-> e.domain, success |-> TRUE,
   newsPageUrl |-> e.newsPageUrl, latestDate |-> e.latestDate, searchResultsCount |-> 0,
   candidatesChecked |-> 0, discoveryMethod |-> "cached", error |-> "", steps |-> <<>>]

S3MayFail == s3faults < MaxFaults

\* the loop of testNewsDiscovery moves to the next company, or leaves the loop
NextCompany ==
  /\ idx' = idx + 1
  /\ bpc' = IF idx < Len(batch) THEN "lookup" ELSE "upload"

\* a lookup that lets the error of a failed read escape: the session ends
LookupCachedRaises ==
  /\ bpc = "lookup"
  /\ UNCHANGED <<storeVars, heurVars, logVars>>
  /\ LET c == batch[idx]
         key == CacheKey(c.website)
         miss == /\ StartDiscovery(c, faults, served)
                 /\ bpc' = "discover"
                 /\ UNCHANGED <<session, enabled, batch, idx, results, cache, storeIdx,
                                callsFor>>
     IN \/ /\ ~enabled
           /\ miss
           /\ UNCHANGED s3faults
        \/ /\ enabled
           /\ Stored(key) = {}
           /\ miss
           /\ UNCHANGED s3faults
        \/ /\ enabled
           /\ S3MayFail
           /\ s3faults' = s3faults + 1
           /\ bpc' = "failed"
           /\ UNCHANGED <<session, enabled, batch, idx, results, cache, storeIdx, callsFor>>
           /\ UNCHANGED orchVars
        \/ /\ enabled
           /\ \E e \in Stored(key) :
                /\ results' = Append(results, CachedResult(e))
                /\ callsFor' = Append(callsFor, 0)
           /\ NextCompany
           /\ UNCHANGED <<session, enabled, batch, cache, storeIdx, s3faults>>
           /\ UNCHANGED orchVars

\* getCachedDiscoveryResult(company.website) and the branch on its result:
\* a hit pushes the cached result, a miss calls discoverNewsPage
LookupCached ==
  /\ bpc = "lookup"
  /\ UNCHANGED <<storeVars, heurVars, logVars>>
  /\ LET c == batch[idx]
         key == CacheKey(c.website)
         miss == /\ StartDiscovery(c, faults, served)
                 /\ bpc' = "discover"
                 /\ UNCHANGED <<session, enabled, batch, idx, results, cache, storeIdx,
                                callsFor>>
     IN \/ /\ ~enabled
           /\ miss
           /\ UNCHANGED s3faults
        \/ /\ enabled
           /\ Stored(key) = {}
           /\ miss
           /\ UNCHANGED s3faults
        \/ /\ enabled
           /\ S3MayFail
           /\ s3faults' = s3faults + 1
           /\ miss
        \/ /\ enabled
           /\ \E e \in Stored(key) :
                /\ results' = Append(results, CachedResult(e))
                /\ callsFor' = Append(callsFor, 0)
           /\ NextCompany
           /\ UNCHANGED <<session, enabled, batch, cache, storeIdx, s3faults>>
           /\ UNCHANGED orchVars

\* discoverNewsPage returned: results.push(result)
PushResult ==
  /\ bpc = "discover"
  /\ UNCHANGED <<storeVars, heurVars, logVars>>
  /\ pc = "done"
  /\ results' = Append(results, result)
  /\ callsFor' = Append(callsFor, calls[1] + calls[2] + calls[3])
  /\ NextCompany
  /\ pc' = "idle"
  /\ steps' = <<>>
  /\ result' = NoResult
  /\ sres' = [search |-> NotRun, homepage |-> NotRun, site |-> NotRun]
  /\ calls' = [ph \in 1..3 |-> 0]
  /\ lastCall' = NoCall
  /\ prevCall' = NoCall
  /\ UNCHANGED <<company, loc, faults, served>>
  /\ UNCHANGED <<session, enabled, batch, cache, storeIdx, s3faults>>

\* uploadDiscoveryResults(results): the session's discovery-results.json
UploadDiscoveryResults ==
  /\ bpc = "upload"
  /\ UNCHANGED <<storeVars, heurVars, logVars>>
  /\ \/ /\ ~enabled
        /\ bpc' = "ended"
        /\ UNCHANGED <<storeIdx, s3faults>>
     \/ /\ enabled
        /\ bpc' = "store"
        /\ storeIdx' = 1
        /\ UNCHANGED s3faults
     \/ /\ enabled
        /\ S3MayFail
        /\ s3faults' = s3faults + 1
        /\ bpc' = "failed"
        /\ UNCHANGED storeIdx
  /\ UNCHANGED <<session, enabled, batch, idx, results, cache, callsFor>>
  /\ UNCHANGED orchVars

\* uploadDiscoveryResults(results): one iteration of the per-domain loop
StoreDomainResult ==
  /\ bpc = "store"
  /\ UNCHANGED <<storeVars, heurVars, logVars>>
  /\ storeIdx <= Len(results)
  /\ LET r == results[storeIdx]
         last == storeIdx = Len(results)
     IN IF r.success /\ r.newsPageUrl # NoUrl
        THEN \/ /\ cache' = PutDomainResult(DomainResult(r, session))
                /\ storeIdx' = storeIdx + 1
                /\ bpc' = IF last THEN "ended" ELSE "store"
                /\ UNCHANGED s3faults
             \/ /\ S3MayFail
                /\ s3faults' = s3faults + 1
                /\ bpc' = "failed"
                /\ UNCHANGED <<cache, storeIdx>>
        ELSE /\ storeIdx' = storeIdx + 1
             /\ bpc' = IF last THEN "ended" ELSE "store"
             /\ UNCHANGED <<cache, s3faults>>
  /\ UNCHANGED <<session, enabled, batch, idx, results, callsFor>>
  /\ UNCHANGED orchVars

\* the next execution of testNewsDiscovery: createS3PersistenceWithLogger,
\* startSession, an empty results array
StartSession ==
  /\ bpc \in {"ended", "failed"}
  /\ UNCHANGED <<storeVars, heurVars, logVars>>
  /\ session < MaxSessions
  /\ session' = session + 1
  /\ idx' = 1
  /\ bpc' = "lookup"
  /\ results' = <<>>
  /\ callsFor' = <<>>
  /\ storeIdx' = 0
  /\ company' = Acme
  /\ loc' = InitLoc
  /\ UNCHANGED <<enabled, batch, cache, s3faults>>
  /\ UNCHANGED <<pc, steps, sres, result, faults, served, calls, lastCall, prevCall>>

\* await discoverNewsPage(stagehand, company, discoveryConfig)
Discover ==
  /\ bpc = "discover"
  /\ discoverNewsPage

testNewsDiscovery ==
  \/ LookupCached
  \/ Discover
  \/ PushResult
  \/ UploadDiscoveryResults
  \/ StoreDomainResult
  \/ StartSession

InitBatch ==
  /\ NoUploads
  /\ NoLog
  /\ NoHeur
  /\ session = 1
  /\ enabled \in BOOLEAN
  /\ batch \in Batches
  /\ idx = 1
  /\ bpc = "lookup"
  /\ results = <<>>
  /\ cache = {}
  /\ storeIdx = 0
  /\ s3faults = 0
  /\ callsFor = <<>>
  /\ pc = "idle"
  /\ company = Acme
  /\ steps = <<>>
  /\ loc = InitLoc
  /\ sres = [search |-> NotRun, homepage |-> NotRun, site |-> NotRun]
  /\ result = NoResult
  /\ faults = 0
  /\ served = 0
  /\ calls = [ph \in 1..3 |-> 0]
  /\ lastCall = NoCall
  /\ prevCall = NoCall

----------------------------------------------------------------------------
(* Concurrent executions against one store *)

\* successful results the executions have to upload: two companies of one
\* key with different pages, and a company of another key
StoreResults ==
  { DiscoveryResult(AcmeWww, TRUE, NewsUrl, "null", 1, 1, "search", "", <<>>),
    DiscoveryResult(AcmeBare, TRUE, PressUrl, "2024-03-15", 1, 1, "homepage", "", <<>>),
    DiscoveryResult(Acme, TRUE, NewsUrl, "null", 1, 1, "search", "", <<>>) }

\* await this.uploadSync(domainResultKey, domainResult) is entered by the
\* execution u: the first attempt of uploadWithRetry
uploadSync(u) ==
  /\ uploads[u].attempt = 0
  /\ uploads[u].n < MaxUploads
  /\ \E r \in StoreResults :
       uploads' = [uploads EXCEPT ![u] = [entry |-> {DomainResult(r, u)}, attempt |-> 1,
                                          n |-> @.n + 1]]
  /\ UNCHANGED <<cache, s3faults, completed, got>>
  /\ UNCHANGED <<session, enabled, batch, idx, bpc, results, storeIdx, callsFor>>
  /\ UNCHANGED <<orchVars, heurVars, logVars>>

\* one attempt of uploadWithRetry: the store applies the PutObject, or the
\* request fails and is sent again (at most 3 attempts, then the error is
\* thrown and the upload loop of u is left)
uploadWithRetry(u) ==
  /\ uploads[u].attempt \in 1..3
  /\ \/ /\ \E e \in uploads[u].entry :
             /\ cache' = PutDomainResult(e)
             /\ completed' = Append(completed, e)
          /\ uploads' = [uploads EXCEPT ![u].attempt = 0]
          /\ UNCHANGED s3faults
       \/ /\ S3MayFail
          /\ s3faults' = s3faults + 1
          /\ uploads' = [uploads EXCEPT ![u] =
                           IF @.attempt < 3 THEN [@ EXCEPT !.attempt = @ + 1]
                           ELSE [@ EXCEPT !.attempt = 0, !.n = MaxUploads]]
          /\ UNCHANGED <<cache, completed>>
  /\ UNCHANGED got
  /\ UNCHANGED <<session, enabled, batch, idx, bpc, results, storeIdx, callsFor>>
  /\ UNCHANGED <<orchVars, heurVars, logVars>>

\* getCachedDiscoveryResult(company.website) by any execution: the object of
\* the key, or null when there is none or the request fails
getCachedDiscoveryResult ==
  /\ \E c \in Companies :
       \/ /\ got' = Stored(CacheKey(c.website))
          /\ UNCHANGED s3faults
       \/ /\ S3MayFail
          /\ s3faults' = s3faults + 1
          /\ got' = {}
  /\ UNCHANGED <<cache, uploads, completed>>
  /\ UNCHANGED <<session, enabled, batch, idx, bpc, results, storeIdx, callsFor>>
  /\ UNCHANGED <<orchVars, heurVars, logVars>>

InitStore ==
  /\ NoUploads
  /\ NoLog
  /\ NoHeur
  /\ session = 1
  /\ enabled = TRUE
  /\ batch = <<>>
  /\ idx = 0
  /\ bpc = "none"
  /\ results = <<>>
  /\ cache = {}
  /\ storeIdx = 0
  /\ s3faults = 0
  /\ callsFor = <<>>
  /\ pc = "idle"
  /\ company = Acme
  /\ steps = <<>>
  /\ loc = InitLoc
  /\ sres = [search |-> NotRun, homepage |-> NotRun, site |-> NotRun]
  /\ result = NoResult
  /\ faults = 0
  /\ served = 0
  /\ calls = [ph \in 1..3 |-> 0]
  /\ lastCall = NoCall
  /\ prevCall = NoCall

----------------------------------------------------------------------------
(* The heuristic stages on their own *)

\* links with each article signal of categorizeUrls, with a generic and with
\* another last segment; RelativeLink has a URL new URL() rejects
YearGenericLink == MkLink("News", MkUrl(ExampleCom, <<"2024", "news">>, FALSE), "Latest")
MarkerGenericLink == MkLink("Press", MkUrl(ExampleCom, <<"article", "press">>, FALSE), "Latest")
TitleGenericLink == MkLink("Acme announces Q1 results", NewsUrl, "Latest")
TitleRootLink == MkLink("Acme announces Q1 results", MkUrl(ExampleCom, <<>>, TRUE), "news")
YearLink == MkLink("News", MkUrl(ExampleCom, <<"2024", "updates">>, FALSE), "Latest")
MarkerLink == MkLink("News", MkUrl(ExampleCom, <<"story", "updates">>, FALSE), "Latest")
SlugLink ==
  MkLink("News", MkUrl(ExampleCom, <<"news", "a-very-long-slug-of-one-news-story">>, FALSE),
         "Latest")
TitleLink == MkLink("Acme announces Q1 results", MkUrl(ExampleCom, <<"updates">>, FALSE), "Latest")
RelativeLink ==
  MkLink("Acme announces Q1 results", MkUrl(<<>>, <<"2024", "updates">>, FALSE), "Latest")

HeurLinks ==
  { NewsLink, PressLink, ArticleLink, AboutLink, YearGenericLink, MarkerGenericLink,
    TitleGenericLink, TitleRootLink, YearLink, MarkerLink, SlugLink, TitleLink,
    RelativeLink }

LinkLists == UNION {[1..n -> HeurLinks] : n \in 0..MaxLinks}

\* the rankings the oracle can answer: those of Rankings, and the links
\* listed last to first with any scores
RankingAnswers(filteredLinks) ==
  Rankings(filteredLinks)
    \cup {[i \in 1..Len(filteredLinks) |-> Ranked(Reversed(filteredLinks)[i].url, f[i])] :
            f \in [1..Len(filteredLinks) -> {5, 9}]}

\* Steps 1B and 1C of discoverViaSearch and the candidate list, for the search
\* results hlinks
FilterAndCategorize ==
  /\ hpc = "start"
  /\ LET domain == getDomainFromUrl(company.website)
         completeResults ==
           FilterSeq(hlinks, {r \in Range(hlinks) :
                                r.title # "" /\ r.url # NoUrl /\ r.snippet # ""})
         newsRelatedUrls == filterNewsRelatedUrls(completeResults, domain)
         cat == categorizeUrls(newsRelatedUrls)
     IN out' = [NoOut EXCEPT !.newsRelatedUrls = newsRelatedUrls,
                             !.listingPages = cat.listingPages,
                             !.articles = cat.articles,
                             !.rootUrls = IF Len(cat.articles) > 0
                                          THEN extractRootUrlsFromArticles(cat.articles)
                                          ELSE <<>>,
                             !.candidates = SearchBuildCandidates(hlinks).candidates]
  /\ hpc' = "candidates"
  /\ UNCHANGED <<hlinks, hranking>>
  /\ UNCHANGED <<orchVars, batchVars, storeVars, logVars>>

\* categorizeUrls(hlinks) and extractRootUrlsFromArticles on its articles
Categorize ==
  /\ hpc = "start"
  /\ LET cat == categorizeUrls(hlinks)
     IN out' = [NoOut EXCEPT !.listingPages = cat.listingPages,
                             !.articles = cat.articles,
                             !.rootUrls = extractRootUrlsFromArticles(cat.articles)]
  /\ hpc' = "categorized"
  /\ UNCHANGED <<hlinks, hranking>>
  /\ UNCHANGED <<orchVars, batchVars, storeVars, logVars>>

\* Step 2C of discoverViaHomepage for the links hlinks without their
\* duplicates: the oracle fails, or answers a ranking
RankHomepageLinks ==
  /\ hpc = "start"
  /\ LET filteredLinks == DedupByUrl(hlinks, {})
     IN /\ Len(filteredLinks) > 0
        /\ \/ /\ hranking' = <<>>
              /\ out' = [NoOut EXCEPT !.filteredLinks = filteredLinks,
                                      !.rankedLinks = filteredLinks,
                                      !.rankFailed = TRUE]
           \/ \E r \in RankingAnswers(filteredLinks) :
                /\ hranking' = r
                /\ out' = [NoOut EXCEPT !.filteredLinks = filteredLinks,
                                        !.rankedLinks = IF Len(r) > 0
                                                        THEN RankLinks(filteredLinks, r)
                                                        ELSE filteredLinks]
  /\ hpc' = "ranked"
  /\ UNCHANGED hlinks
  /\ UNCHANGED <<orchVars, batchVars, storeVars, logVars>>

InitHeur ==
  /\ hpc = "start"
  /\ hlinks \in LinkLists
  /\ hranking = <<>>
  /\ out = NoOut
  /\ NoUploads
  /\ NoLog
  /\ session = 0
  /\ enabled = FALSE
  /\ batch = <<>>
  /\ idx = 0
  /\ bpc = "none"
  /\ results = <<>>
  /\ cache = {}
  /\ storeIdx = 0
  /\ s3faults = 0
  /\ callsFor = <<>>
  /\ pc = "idle"
  /\ company = Acme
  /\ steps = <<>>
  /\ loc = InitLoc
  /\ sres = [search |-> NotRun, homepage |-> NotRun, site |-> NotRun]
  /\ result = NoResult
  /\ faults = 0
  /\ served = 0
  /\ calls = [ph \in 1..3 |-> 0]
  /\ lastCall = NoCall
  /\ prevCall = NoCall

----------------------------------------------------------------------------
(* The log buffer of a session and its uploads (StagehandS3Persistence) *)

\* uploadWithRetry(key, data) of the log batch with this index, at this attempt
Upload(n, lines) == [batchIndex |-> n, logs |-> lines, attempt |-> 1, state |-> "pending"]

\* a PutObject request for a log batch can fail MaxPutFailures times in all
PutMayFail == s3faults < MaxPutFailures

\* an uploadWithRetry that sends the request a fourth time
uploadWithRetryFourAttempts(up, ok) ==
  IF ok THEN [up EXCEPT !.state = "fulfilled"]
  ELSE IF up.attempt < 4 THEN [up EXCEPT !.attempt = @ + 1]
       ELSE [up EXCEPT !.state = "rejected"]

\* one attempt of uploadWithRetry(key, data, attempt): the request succeeded
\* (ok) and the promise is fulfilled, or it failed and is sent again while
\* attempt < 3, or the error is thrown
uploadWithRetryOf(up, ok) ==
  IF ok THEN [up EXCEPT !.state = "fulfilled"]
  ELSE IF up.attempt < 3 THEN [up EXCEPT !.attempt = @ + 1]
       ELSE [up EXCEPT !.state = "rejected"]

\* the store after the request of up: PutObject replaces the object of the key
PutLogBatch(up, ok) ==
  IF ok
  THEN {o \in objects : o.batchIndex # up.batchIndex}
         \cup {[batchIndex |-> up.batchIndex, logs |-> up.logs]}
  ELSE objects

Request(up, ok) == [batchIndex |-> up.batchIndex, attempt |-> up.attempt, ok |-> ok]

\* flushLogBuffer() with buf in the buffer: nothing when persistence is
\* disabled or the buffer is empty; else the buffer becomes a batch with the
\* next index and uploadAsync adds its upload to pendingUploads
flushLogBuffer(buf) ==
  IF ~enabled \/ buf = <<>>
  THEN /\ logBuffer' = buf
       /\ UNCHANGED <<logBatchIndex, pendingUploads>>
  ELSE /\ logBuffer' = <<>>
       /\ logBatchIndex' = logBatchIndex + 1
       /\ pendingUploads' = pendingUploads \cup {Upload(logBatchIndex + 1, buf)}

\* the session has a sessionId: from startSession until endSession resets it
SessionOpen == lpc \in {"running", "flushing", "uploads", "waiting", "closing"}

\* the logger createLogger() returned is called with a log line: the line is
\* buffered and a full buffer is flushed
Logger ==
  /\ SessionOpen
  /\ totalLogCount < MaxLines
  /\ totalLogCount' = totalLogCount + 1
  /\ LET buf == Append(logBuffer, totalLogCount + 1)
     IN IF Len(buf) >= logBatchSize
        THEN flushLogBuffer(buf)
        ELSE /\ logBuffer' = buf
             /\ UNCHANGED <<logBatchIndex, pendingUploads>>
  /\ UNCHANGED <<lpc, flushTimer, awaited, syncUpload, objects, requests>>
  /\ UNCHANGED <<batchVars, orchVars, storeVars, heurVars>>

\* the setInterval callback of startSession
TimerFlush ==
  /\ flushTimer
  /\ enabled
  /\ logBuffer # <<>>
  /\ flushLogBuffer(logBuffer)
  /\ UNCHANGED <<lpc, totalLogCount, flushTimer, awaited, syncUpload, objects, requests>>
  /\ UNCHANGED <<batchVars, orchVars, storeVars, heurVars>>

\* an upload started with uploadAsync makes one attempt; .catch() logs a
\* thrown error and .finally() deletes the promise from pendingUploads
AsyncAttempt ==
  /\ \E up \in pendingUploads, ok \in BOOLEAN :
       /\ ok \/ PutMayFail
       /\ s3faults' = IF ok THEN s3faults ELSE s3faults + 1
       /\ requests' = requests \cup {Request(up, ok)}
       /\ objects' = PutLogBatch(up, ok)
       /\ LET after == uploadWithRetryOf(up, ok)
          IN pendingUploads' = (pendingUploads \ {up})
                                 \cup (IF after.state = "pending" THEN {after} ELSE {})
  /\ UNCHANGED <<lpc, logBuffer, logBatchIndex, totalLogCount, flushTimer, awaited,
                 syncUpload>>
  /\ UNCHANGED <<session, enabled, batch, idx, bpc, results, cache, storeIdx, callsFor>>
  /\ UNCHANGED <<orchVars, storeVars, heurVars>>

\* endSession(): clearInterval, then flushLogBufferSync() up to its await
endSession ==
  /\ lpc = "running"
  /\ flushTimer' = FALSE
  /\ IF ~enabled \/ logBuffer = <<>>
     THEN /\ lpc' = "uploads"
          /\ UNCHANGED <<logBuffer, logBatchIndex, syncUpload>>
     ELSE /\ lpc' = "flushing"
          /\ logBuffer' = <<>>
          /\ logBatchIndex' = logBatchIndex + 1
          /\ syncUpload' = {Upload(logBatchIndex + 1, logBuffer)}
  /\ UNCHANGED <<totalLogCount, pendingUploads, awaited, objects, requests>>
  /\ UNCHANGED <<batchVars, orchVars, storeVars, heurVars>>

\* the uploadSync of flushLogBufferSync makes one attempt; an error thrown
\* after the last attempt rejects endSession
SyncAttempt ==
  /\ lpc = "flushing"
  /\ \E up \in syncUpload, ok \in BOOLEAN :
       /\ ok \/ PutMayFail
       /\ s3faults' = IF ok THEN s3faults ELSE s3faults + 1
       /\ requests' = requests \cup {Request(up, ok)}
       /\ objects' = PutLogBatch(up, ok)
       /\ LET after == uploadWithRetryOf(up, ok)
          IN /\ syncUpload' = IF after.state = "pending" THEN {after} ELSE {}
             /\ lpc' = CASE after.state = "pending" -> "flushing"
                         [] after.state = "fulfilled" -> "uploads"
                         [] OTHER -> "failed"
  /\ UNCHANGED <<logBuffer, logBatchIndex, totalLogCount, flushTimer, pendingUploads,
                 awaited>>
  /\ UNCHANGED <<session, enabled, batch, idx, bpc, results, cache, storeIdx, callsFor>>
  /\ UNCHANGED <<orchVars, storeVars, heurVars>>

\* endSession() after the uploads of metrics, history and cache files:
\* waitForPendingUploads() gives the pending promises to Promise.allSettled
waitForPendingUploads ==
  /\ lpc = "uploads"
  /\ awaited' = {up.batchIndex : up \in pendingUploads}
  /\ lpc' = IF pendingUploads = {} THEN "closing" ELSE "waiting"
  /\ UNCHANGED <<logBuffer, logBatchIndex, totalLogCount, flushTimer, pendingUploads,
                 syncUpload, objects, requests>>
  /\ UNCHANGED <<batchVars, orchVars, storeVars, heurVars>>

\* Promise.allSettled resolves: every promise it was given has settled
AllSettled ==
  /\ lpc = "waiting"
  /\ \A up \in pendingUploads : up.batchIndex \notin awaited
  /\ lpc' = "closing"
  /\ UNCHANGED <<logBuffer, logBatchIndex, totalLogCount, flushTimer, pendingUploads,
                 awaited, syncUpload, objects, requests>>
  /\ UNCHANGED <<batchVars, orchVars, storeVars, heurVars>>

\* endSession() after metadata, report and stdout are uploaded: sessionId is
\* reset and the report is returned
endSessionReturns ==
  /\ lpc = "closing"
  /\ lpc' = "ended"
  /\ UNCHANGED <<logBuffer, logBatchIndex, totalLogCount, flushTimer, pendingUploads,
                 awaited, syncUpload, objects, requests>>
  /\ UNCHANGED <<batchVars, orchVars, storeVars, heurVars>>

\* the session after startSession(): empty buffer, batch index 0, flush timer
\* started
InitLog ==
  /\ NoUploads
  /\ NoHeur
  /\ lpc = "running"
  /\ logBuffer = <<>>
  /\ logBatchIndex = 0
  /\ totalLogCount = 0
  /\ flushTimer = TRUE
  /\ pendingUploads = {}
  /\ awaited = {}
  /\ syncUpload = {}
  /\ objects = {}
  /\ requests = {}
  /\ session = 1
  /\ enabled \in BOOLEAN
  /\ batch = <<>>
  /\ idx = 0
  /\ bpc = "none"
  /\ results = <<>>
  /\ cache = {}
  /\ storeIdx = 0
  /\ s3faults = 0
  /\ callsFor = <<>>
  /\ pc = "idle"
  /\ company = Acme
  /\ steps = <<>>
  /\ loc = InitLoc
  /\ sres = [search |-> NotRun, homepage |-> NotRun, site |-> NotRun]
  /\ result = NoResult
  /\ faults = 0
  /\ served = 0
  /\ calls = [ph \in 1..3 |-> 0]
  /\ lastCall = NoCall
  /\ prevCall = NoCall

----------------------------------------------------------------------------
(* Specifications *)

Next == discoverNewsPage

\* one call of discoverNewsPage
Spec == Init /\ [][Next]_vars

NextBatch == testNewsDiscovery

\* sessions of testNewsDiscovery against one store; over the sessions the
\* external sources give BatchItems items of content, and MaxFaults requests
\* to the store fail
SpecBatch == InitBatch /\ [][NextBatch]_vars

NextStore ==
  \/ \E u \in Uploaders : uploadSync(u)
  \/ \E u \in Uploaders : uploadWithRetry(u)
  \/ getCachedDiscoveryResult

\* two executions upload per-domain results to one store while lookups are
\* made; the store applies each request as a whole
SpecStore == InitStore /\ [][NextStore]_vars

NextHeur ==
  \/ FilterAndCategorize
  \/ Categorize
  \/ RankHomepageLinks

\* the filter, the classifier, the root-URL extraction and the ranking applied
\* to every list of at most MaxLinks links
SpecHeur == InitHeur /\ [][NextHeur]_vars

NextLog ==
  \/ Logger
  \/ TimerFlush
  \/ AsyncAttempt
  \/ endSession
  \/ SyncAttempt
  \/ waitForPendingUploads
  \/ AllSettled
  \/ endSessionReturns

\* one session of the persistence: logger calls, flushes of the timer and the
\* steps of endSession in any order, while the uploads in flight make their
\* attempts
SpecLog == InitLog /\ [][NextLog]_vars

----------------------------------------------------------------------------
(* Vocabulary of the properties *)

NavPcs == {"s1_nav", "s2_nav", "s3_nav"}

VerifyPcs == {"s1_verify", "s2_verify", "s3_verify"}

ValidatePcs == {"s1_validate", "s2_validate", "s3_validate"}

\* the strategy discoverNewsPage is in: 1 SEARCH, 2 HOMEPAGE, 3 SITE_SEARCH,
\* 4 returned, 0 not called
PhaseOf(p) ==
  CASE p \in {"s1_goto", "s1_observe", "s1_extract", "s1_nav", "s1_verify", "s1_validate"} -> 1
    [] p \in {"s2_goto", "s2_observe", "s2_rank", "s2_nav", "s2_verify", "s2_validate"} -> 2
    [] p \in {"s3_goto", "s3_find", "s3_open", "s3_act", "s3_results", "s3_back", "s3_nav",
              "s3_verify", "s3_validate"} -> 3
    [] p = "done" -> 4
    [] OTHER -> 0

\* the candidate the verification loop is at
Candidate == loc.candidates[loc.i]

\* the verification loop of the running strategy has another candidate
MoreCandidates ==
  loc.i < (IF PhaseOf(pc) = 3 THEN Min(Len(loc.candidates), maxCandidatesToCheck)
           ELSE Len(loc.candidates))

\* the step taken moves the loop to the next candidate, or leaves the loop
\* when there is none
NextCandidateAttempted ==
  IF MoreCandidates
  THEN /\ pc' \in NavPcs
       /\ PhaseOf(pc') = PhaseOf(pc)
       /\ loc'.candidates = loc.candidates
       /\ loc'.i = loc.i + 1
  ELSE pc' \in {"s2_goto", "s3_goto", "s3_back"}

\* the step taken appends exactly one step, of this result, for this URL
Recorded(res, url) ==
  /\ Len(steps') = Len(steps) + 1
  /\ SubSeq(steps', 1, Len(steps)) = steps
  /\ steps'[Len(steps')].result = res
  /\ steps'[Len(steps')].url = url
  /\ steps'[Len(steps')].phase = PhaseOf(pc)

AbsentOrError(status) == status = 0 \/ status >= 400

Below400(status) == status >= 1 /\ status < 400

----------------------------------------------------------------------------
(* C1 *)

\* C1: when the SEARCH strategy reports a verified success the run is over
\* with that result: no external call of HOMEPAGE or SITE_SEARCH has been
\* made and the audit trail holds no step of phase 2 or 3.
SearchSuccessShortCircuits ==
  sres.search.success =>
    /\ pc = "done"
    /\ result.success
    /\ result.discoveryMethod = "search"
    /\ calls[2] = 0
    /\ calls[3] = 0
    /\ \A k \in 1..Len(result.steps) : result.steps[k].phase \notin {2, 3}
    /\ \A k \in 1..Len(steps) : steps[k].phase \notin {2, 3}

SearchSucceeded ==
  /\ pc = "done"
  /\ sres.search.success
  /\ calls[1] > 3

----------------------------------------------------------------------------
(* C2 *)

\* what has run and what has not, by the strategy the run is in
StrategyOrder ==
  /\ PhaseOf(pc) = 1 =>
       sres.search = NotRun /\ sres.homepage = NotRun /\ sres.site = NotRun
  /\ PhaseOf(pc) = 2 =>
       /\ sres.search # NotRun /\ ~sres.search.success
       /\ sres.homepage = NotRun /\ sres.site = NotRun
  /\ PhaseOf(pc) = 3 =>
       /\ sres.search # NotRun /\ ~sres.search.success
       /\ sres.homepage # NotRun /\ ~sres.homepage.success
       /\ sres.site = NotRun
  /\ (sres.search.success \/ sres.homepage.success \/ sres.site.success) =>
       pc = "done" /\ result.success
  /\ (pc = "done" /\ result.success) =>
       \/ /\ result.discoveryMethod = "search"
          /\ sres.search.success
          /\ sres.homepage = NotRun /\ sres.site = NotRun
       \/ /\ result.discoveryMethod = "homepage"
          /\ ~sres.search.success /\ sres.homepage.success
          /\ sres.site = NotRun
       \/ /\ result.discoveryMethod = "site-search"
          /\ ~sres.search.success /\ ~sres.homepage.success /\ sres.site.success

\* C2: the strategies run in the order SEARCH, HOMEPAGE, SITE_SEARCH: a
\* strategy is entered only when the one before it has returned without
\* success, the run never goes back to a strategy, it stops at the first
\* success and discoveryMethod names the strategy that succeeded.
StrategiesRunInOrder ==
  [][/\ StrategyOrder
     /\ StrategyOrder'
     /\ PhaseOf(pc') >= PhaseOf(pc)
     /\ PhaseOf(pc') \in {PhaseOf(pc), PhaseOf(pc) + 1, 4}]_vars

SiteSearchSucceeded ==
  /\ pc = "done"
  /\ result.success
  /\ result.discoveryMethod = "site-search"
  /\ calls[1] > 0 /\ calls[2] > 0 /\ calls[3] > 0

----------------------------------------------------------------------------
(* C3 *)

\* C3: a URL is returned only by the step in which the second navigation to
\* the candidate answers a status below 400, taken after the oracle answered
\* hasNews = true for it, itself asked after a first navigation below 400;
\* a second navigation with an absent status or one of 400 and above records
\* a fail step for the candidate, returns nothing and moves to the next
\* candidate. In all three strategies.
MatchIsVerifiedThenValidated ==
  [][/\ (result'.success /\ ~result.success) =>
          /\ pc \in ValidatePcs
          /\ result'.newsPageUrl = Candidate.url
          /\ result'.newsPageUrl # NoUrl
          /\ prevCall.kind = "goto" /\ prevCall.url = Candidate.url
          /\ Below400(prevCall.status)
          /\ lastCall.kind = "verify" /\ lastCall.url = Candidate.url
          /\ loc.verification.hasNews
          /\ lastCall'.kind = "goto" /\ lastCall'.url = Candidate.url
          /\ Below400(lastCall'.status)
          /\ prevCall' = lastCall
     /\ (pc \in ValidatePcs /\ AbsentOrError(lastCall'.status)) =>
          /\ ~result'.success
          /\ sres'.search.success = FALSE
          /\ sres'.homepage.success = FALSE
          /\ sres'.site.success = FALSE
          /\ Recorded("fail", Candidate.url)
          /\ NextCandidateAttempted]_vars

ValidationFailedThenNext ==
  /\ pc \in NavPcs
  /\ loc.i > 1
  /\ Len(steps) > 0
  /\ steps[Len(steps)].result = "fail"
  /\ steps[Len(steps)].detail = "Validation failed"
  /\ steps[Len(steps)].url = loc.candidates[loc.i - 1].url

----------------------------------------------------------------------------
(* C4 *)

\* C4: a first navigation with an absent status or one of 400 and above
\* records a skip step for the candidate and moves to the next candidate
\* without a call of the oracle; the oracle is called only from the
\* verification step, right after a navigation to the same candidate that
\* answered a status below 400.
FailedNavigationSkipsOracle ==
  [][/\ (pc \in NavPcs /\ AbsentOrError(lastCall'.status)) =>
          /\ lastCall'.kind = "goto" /\ lastCall'.url = Candidate.url
          /\ Recorded("skip", Candidate.url)
          /\ NextCandidateAttempted
     /\ pc \in VerifyPcs =>
          /\ lastCall.kind = "goto" /\ lastCall.url = Candidate.url
          /\ Below400(lastCall.status)
          /\ lastCall'.kind = "verify" /\ lastCall'.url = Candidate.url
          /\ prevCall' = lastCall
     /\ (pc \notin VerifyPcs /\ lastCall'.kind = "verify") =>
          UNCHANGED <<lastCall, prevCall, calls>>]_vars

SkippedThenNext ==
  /\ pc \in NavPcs
  /\ loc.i > 1
  /\ Len(steps) > 0
  /\ steps[Len(steps)].result = "skip"
  /\ steps[Len(steps)].url = loc.candidates[loc.i - 1].url
  /\ lastCall.kind = "goto"
  /\ lastCall.status = 404

----------------------------------------------------------------------------
(* C5 *)

\* the company testNewsDiscovery is at
Target == batch[idx]

\* the step taken is a lookup that the store answers with the object of the
\* target's key
LookupReturnsEntry ==
  /\ bpc = "lookup"
  /\ enabled
  /\ Stored(CacheKey(Target.website)) # {}
  /\ s3faults' = s3faults

\* C5: when the lookup returns an entry, discoverNewsPage is not called for
\* the target and the result pushed has success = true, discoveryMethod
\* "cached", the newsPageUrl of the entry, no steps and candidatesChecked 0.
CacheHitBypassesDiscovery ==
  [][LookupReturnsEntry =>
       /\ pc = "idle" /\ pc' = "idle"
       /\ bpc' # "discover"
       /\ UNCHANGED <<calls, lastCall, prevCall, steps>>
       /\ Len(results') = Len(results) + 1
       /\ SubSeq(results', 1, Len(results)) = results
       /\ \E e \in Stored(CacheKey(Target.website)) :
            LET r == results'[Len(results')]
            IN /\ r.success
               /\ r.discoveryMethod = "cached"
               /\ r.newsPageUrl = e.newsPageUrl
               /\ r.newsPageUrl # NoUrl
               /\ r.steps = <<>>
               /\ r.candidatesChecked = 0]_vars

ServedFromCache ==
  /\ Len(results) > 0
  /\ results[Len(results)].discoveryMethod = "cached"
  /\ callsFor[Len(results)] = 0
  /\ \E e \in cache : e.newsPageUrl = results[Len(results)].newsPageUrl

----------------------------------------------------------------------------
(* C6 *)

\* the objects of the target's key that an earlier session wrote for this
\* same target
EarlierEntries ==
  {e \in cache :
     /\ e.domain = CacheKey(Target.website)
     /\ e.sessionId < session
     /\ e.companyName = Target.name}

\* the step taken serves the target from the entry e without any external call
ServedWithoutCalls(e) ==
  /\ bpc' # "discover"
  /\ pc' = "idle"
  /\ UNCHANGED <<calls, lastCall, prevCall>>
  /\ Len(results') = Len(results) + 1
  /\ results'[Len(results')].newsPageUrl = e.newsPageUrl
  /\ callsFor' = Append(callsFor, 0)

----------------------------------------------------------------------------
(* C7 *)

\* C7: the store changes only in the per-domain loop of the upload, for a
\* result with success = true and a newsPageUrl; the entry written carries
\* that newsPageUrl and replaces the object of its key, every other object is
\* left as it was; a result without success (exhausted or error) writes
\* nothing; every object has a newsPageUrl and a key holds one object.
OnlySuccessIsStored ==
  [][/\ cache' # cache =>
          /\ bpc = "store"
          /\ results[storeIdx].success
          /\ results[storeIdx].newsPageUrl # NoUrl
          /\ \E e \in cache' :
               /\ e.newsPageUrl = results[storeIdx].newsPageUrl
               /\ e.companyName = results[storeIdx].companyName
               /\ e.sessionId = session
               /\ cache' \ {e} = {x \in cache : x.domain # e.domain}
     /\ (bpc = "store" /\ ~results[storeIdx].success) => cache' = cache
     /\ \A e \in cache' : e.newsPageUrl # NoUrl
     /\ \A e1, e2 \in cache' : e1.domain = e2.domain => e1 = e2]_vars

OverwrittenAndSkipped ==
  /\ session = 2
  /\ bpc = "ended"
  /\ \E e \in cache : e.sessionId = 2 /\ e.discoveryMethod = "cached"
  /\ \E k \in 1..Len(results) :
       /\ ~results[k].success
       /\ Stored(CacheKey(results[k].companyWebsite)) = {}

----------------------------------------------------------------------------
(* C8 *)

\* C8 as stated: the key is the normalized domain, so at a lookup every
\* stored entry of the target's domain is the object of the target's key.
SameDomainSharesEntry ==
  (bpc = "lookup" /\ enabled) =>
    \A e \in cache :
      getDomainFromUrl(e.domain) = getDomainFromUrl(Target.website) =>
        e \in Stored(CacheKey(Target.website))

----------------------------------------------------------------------------
(* C9 *)

\* C9: discoverNewsPage always has a way on until it has returned, whatever
\* call fails, and what it returns is a result for the company; without
\* success the result has no newsPageUrl, an error text, and the steps
\* recorded up to the return.
AlwaysReturnsResult ==
  /\ PhaseOf(pc) \in 1..3 => ENABLED discoverNewsPage
  /\ pc = "done" =>
       /\ result.companyName = company.name
       /\ result.companyWebsite = company.website
       /\ result.steps = steps
       /\ ~result.success =>
            /\ result.newsPageUrl = NoUrl
            /\ result.error # ""
            /\ Len(result.steps) > 0

ReturnedAfterThrow ==
  /\ pc = "done"
  /\ ~result.success
  /\ faults > 0
  /\ Len(result.steps) > 1
  /\ result.steps[Len(result.steps)].step = "ERR"
  /\ result.error = "observe failed"

----------------------------------------------------------------------------
(* C10 *)

\* C10 as stated: a run in which one external call failed still goes through
\* the remaining strategies and ends with a success or with all three
\* strategies exhausted.
SingleFailureDoesNotAbort ==
  (pc = "done" /\ faults <= 1) =>
    \/ result.success
    \/ /\ sres.search # NotRun
       /\ sres.homepage # NotRun
       /\ sres.site # NotRun

----------------------------------------------------------------------------
(* C11 *)

\* the three strategies have returned, none with a success
AllStrategiesFailed ==
  /\ sres.search # NotRun /\ ~sres.search.success
  /\ sres.homepage # NotRun /\ ~sres.homepage.success
  /\ sres.site # NotRun /\ ~sres.site.success

\* C11: when the three strategies have all ended without a verified success
\* the run has returned (nothing is raised to the caller) a result with
\* success = false, no newsPageUrl, no discoveryMethod and an error text.
ExhaustedReturnsFailure ==
  AllStrategiesFailed =>
    /\ pc = "done"
    /\ ~result.success
    /\ result.newsPageUrl = NoUrl
    /\ result.discoveryMethod = "none"
    /\ result.error # ""
    /\ result.companyName = company.name
    /\ result.steps = steps

Exhausted ==
  /\ AllStrategiesFailed
  /\ pc = "done"
  /\ calls[1] > 0 /\ calls[2] > 0 /\ calls[3] > 1
  /\ result.candidatesChecked > 0

----------------------------------------------------------------------------
(* C12 *)

\* C12 as stated: for a target whose website cannot be parsed no strategy is
\* attempted: no external call is made and no step of a strategy is
\* recorded, and what the run returns is an error result.
MalformedTargetIsRejected ==
  ~WebsiteParses(company.website) =>
    /\ calls = [ph \in 1..3 |-> 0]
    /\ \A k \in 1..Len(steps) : steps[k].phase = 0
    /\ pc \in {"s1_goto", "done"}
    /\ pc = "done" => (~result.success /\ result.error # "")

----------------------------------------------------------------------------
(* C13 *)

\* the strategy is at a candidate: about to navigate to it, to ask the oracle
\* about it, or to navigate to it again
AtCandidate == pc \in NavPcs \cup VerifyPcs \cup ValidatePcs

\* C13 as stated: in every strategy, the candidate a verification navigates
\* to is on the target's domain: its host is the domain or ends with "." +
\* the domain.
CandidatesAreSameSite ==
  (AtCandidate /\ WebsiteParses(company.website)) =>
    isOnDomain(Candidate.url, getDomainFromUrl(company.website))

----------------------------------------------------------------------------
(* C14 *)

\* C14 as stated: a strategy submits at most maxCandidatesToCheck candidates
\* to verification, however many links the external source returned.
CandidatesAreCapped ==
  (AtCandidate /\ WebsiteParses(company.website)) =>
    /\ loc.i <= maxCandidatesToCheck
    /\ loc.candidatesChecked <= maxCandidatesToCheck

----------------------------------------------------------------------------
(* C15 *)

\* the candidates whose verification the strategies that ran have started;
\* a strategy that was not entered counts 0
VerificationsStarted ==
  sres.search.candidatesChecked + sres.homepage.candidatesChecked
    + sres.site.candidatesChecked

\* C15 as stated: whatever ended the run, the candidatesChecked of the
\* result returned is the sum over the three strategies of the candidates
\* whose verification was started.
CandidatesCheckedIsTheSum ==
  pc = "done" => result.candidatesChecked = VerificationsStarted

----------------------------------------------------------------------------
(* C17 *)

\* the step taken is a second navigation to the candidate that answered a
\* status below 400
Validated ==
  /\ pc \in ValidatePcs
  /\ lastCall'.kind = "goto"
  /\ Below400(lastCall'.status)

\* C17: the step in which a candidate passes the second navigation returns
\* from discoverNewsPage with a success for that candidate's URL, the date
\* the oracle extracted and a success step carrying the explanation; once
\* the run has returned no call is made, so no later candidate and no later
\* search term is navigated to or classified.
FirstSuccessReturns ==
  [][/\ Validated =>
          /\ pc' = "done"
          /\ result'.success
          /\ result'.newsPageUrl = Candidate.url
          /\ result'.latestDate = loc.verification.latestDate
          /\ result'.steps = steps'
          /\ Recorded("success", Candidate.url)
          /\ steps'[Len(steps')].detail = "explanation"
          /\ lastCall'.url = Candidate.url
     /\ pc = "done" => UNCHANGED <<calls, lastCall, prevCall, result>>]_vars

FirstOfSeveralAccepted ==
  /\ pc = "done"
  /\ result.success
  /\ result.discoveryMethod = "search"
  /\ result.searchResultsCount = 3
  /\ result.candidatesChecked = 1
  /\ result.latestDate = "2024-03-15"
  /\ lastCall.url = result.newsPageUrl

----------------------------------------------------------------------------
(* C18 *)

\* C18 as stated: when SEARCH ends with no raw result or with its candidates
\* exhausted, HOMEPAGE is entered next, and when HOMEPAGE ends with no link
\* or with its candidates exhausted, SITE_SEARCH is entered next; the
\* counters of the strategy that ended are kept (0 candidates checked when
\* SEARCH had no raw result). The step looked at is one in which no call
\* failed.
FailureEntersNextStrategy ==
  [][/\ (PhaseOf(pc) = 1 /\ PhaseOf(pc') # 1 /\ ~result'.success /\ faults' = faults) =>
          /\ pc' = "s2_goto"
          /\ sres'.search # NotRun
          /\ sres'.search.searchResultsCount = 0 => sres'.search.candidatesChecked = 0
     /\ (PhaseOf(pc) = 2 /\ PhaseOf(pc') # 2 /\ ~result'.success /\ faults' = faults) =>
          /\ pc' = "s3_goto"
          /\ sres'.homepage # NotRun
          /\ sres'.search = sres.search]_vars

----------------------------------------------------------------------------
(* C19 *)

\* the first navigation to the candidate threw (a timeout, a network error)
NavigationThrew == lastCall'.kind = "goto" /\ lastCall'.status = -1

\* C19 as stated: a first navigation to a candidate that answers 400 or
\* more, answers nothing, or throws, appends a skip step for the candidate
\* and the loop goes on with the next candidate.
NavigationErrorIsSkipped ==
  [][(pc \in NavPcs /\ (AbsentOrError(lastCall'.status) \/ NavigationThrew)) =>
       /\ lastCall'.url = Candidate.url
       /\ Recorded("skip", Candidate.url)
       /\ NextCandidateAttempted]_vars

----------------------------------------------------------------------------
(* C20 *)

\* the step taken is a call of the oracle for the candidate that threw
OracleThrew ==
  /\ pc \in VerifyPcs
  /\ lastCall'.kind = "verify"
  /\ faults' = faults + 1

\* C20: when the oracle throws on a candidate, the candidate is not accepted,
\* nothing is returned for it, the loop goes on with the candidate after it
\* (or leaves the loop when it was the last) and the run is not aborted.
OracleErrorIsLocal ==
  [][OracleThrew =>
       /\ lastCall'.url = Candidate.url
       /\ ~result'.success
       /\ result' = result
       /\ pc' # "done"
       /\ ~sres'.search.success /\ ~sres'.homepage.success /\ ~sres'.site.success
       /\ steps' = steps
       /\ NextCandidateAttempted]_vars

NextAfterOracleError ==
  /\ pc \in NavPcs
  /\ loc.i > 1
  /\ faults = 1
  /\ lastCall.kind = "verify"
  /\ lastCall.url = loc.candidates[loc.i - 1].url
  /\ \A k \in 1..Len(steps) : steps[k].url # lastCall.url

----------------------------------------------------------------------------
(* C16 *)

\* the stores to this key that have completed, in order
CompletedTo(key) == FilterSeq(completed, {e \in Range(completed) : e.domain = key})

\* C16: with stores and lookups of two executions interleaved in any order,
\* every object of the store, and so everything a lookup returns, is the
\* entry of one store as a whole; a lookup returns nothing or one such
\* entry; the object of a key is the entry of the store to that key that
\* completed last, whatever was stored to other keys.
StoreIsLastWriteWins ==
  /\ \A e \in cache \cup got : e \in Range(completed)
  /\ Cardinality(got) <= 1
  /\ \A e \in Range(completed) :
       LET stores == CompletedTo(e.domain)
       IN Stored(e.domain) = {stores[Len(stores)]}

ConcurrentStoresInterleaved ==
  /\ \A u \in Uploaders : uploads[u].attempt = 0 /\ uploads[u].n > 0
  /\ s3faults > 0
  /\ \E j, k \in 1..Len(completed) :
       /\ j < k
       /\ completed[j].domain = completed[k].domain
       /\ completed[j].sessionId # completed[k].sessionId
       /\ completed[j].newsPageUrl # completed[k].newsPageUrl
       /\ got = {completed[j]}
       /\ Stored(completed[k].domain) = {completed[k]}
  /\ \E e \in cache : \E x \in cache : e.domain # x.domain

----------------------------------------------------------------------------
(* C21 *)

\* the URLs of a list of links, in order
UrlsOf(ls) == [i \in 1..Len(ls) |-> ls[i].url]

\* C21 as stated: the candidate list a strategy hands to verification
\* names no URL twice (listing links and synthesized root URLs together, and
\* after the ranking reorder).
CandidateUrlsAreDistinct ==
  (AtCandidate /\ WebsiteParses(company.website)) => NoDup(UrlsOf(loc.candidates))

----------------------------------------------------------------------------
(* C22 *)

\* C22: the candidate list of SEARCH is the listing links in their order, at
\* most maxCandidatesToCheck of them, followed by as many root URLs of the
\* articles, in their order, as fill the list up to maxCandidatesToCheck;
\* no link of an article's URL stands before a listing link.
SearchCandidateOrder ==
  hpc = "candidates" =>
    LET c == out.candidates
        k == Min(Len(out.listingPages), maxCandidatesToCheck)
    IN /\ Len(c) = Min(maxCandidatesToCheck, k + Len(out.rootUrls))
       /\ SubSeq(c, 1, k) = SubSeq(out.listingPages, 1, k)
       /\ SubSeq(c, k + 1, Len(c)) = SubSeq(out.rootUrls, 1, Len(c) - k)
       /\ \A i, j \in 1..Len(c) :
            (i < j /\ c[j] \in Range(out.listingPages))
              => c[i].url \notin Range(UrlsOf(out.articles))

\* an article came first in the search results; its root URLs follow the
\* listing link and are cut at the cap
ListingThenRoots ==
  /\ hpc = "candidates"
  /\ Len(hlinks) > 1
  /\ hlinks[1] \in Range(out.articles)
  /\ out.candidates # <<>>
  /\ out.candidates[1] \in Range(out.listingPages)
  /\ Len(out.listingPages) < maxCandidatesToCheck
  /\ Len(out.listingPages) + Len(out.rootUrls) > maxCandidatesToCheck
  /\ out.candidates[Len(out.candidates)] \in Range(out.rootUrls)

----------------------------------------------------------------------------
(* C23 *)

\* the entries of the oracle's answer that name a candidate
Scored == {i \in 1..Len(hranking) : hranking[i].url \in Range(UrlsOf(out.filteredLinks))}

\* the place of a URL in the candidate list
PlaceOf(u) == CHOOSE p \in 1..Len(out.filteredLinks) : out.filteredLinks[p].url = u

\* entry i of the answer goes before entry j: by its higher score, and with
\* equal scores by its place in the answer
BeforeInAnswer(i, j) ==
  \/ hranking[i].score > hranking[j].score
  \/ hranking[i].score = hranking[j].score /\ i < j

\* entry i of the answer goes before entry j: by its higher score, and with
\* equal scores by the place of its URL in the candidate list
BeforeInCandidates(i, j) ==
  \/ hranking[i].score > hranking[j].score
  \/ /\ hranking[i].score = hranking[j].score
     /\ \/ PlaceOf(hranking[i].url) < PlaceOf(hranking[j].url)
        \/ PlaceOf(hranking[i].url) = PlaceOf(hranking[j].url) /\ i < j

\* the candidates the answer does not name, in their order
Unscored ==
  FilterSeq(out.filteredLinks,
            {l \in Range(out.filteredLinks) : l.url \notin Range(UrlsOf(hranking))})

\* a ranking was answered and applied
RankingApplied == hpc = "ranked" /\ ~out.rankFailed /\ Len(hranking) > 0

\* C23 as stated: the candidates are reordered by descending score, those
\* of equal score keep their relative order in the candidate list, and those
\* the answer does not name follow in their original order.
TiesKeepCandidateOrder ==
  RankingApplied =>
    /\ Len(out.rankedLinks) = Cardinality(Scored) + Len(Unscored)
    /\ \A i \in Scored :
         out.rankedLinks[1 + Cardinality({j \in Scored : BeforeInCandidates(j, i)})].url
           = hranking[i].url
    /\ SubSeq(out.rankedLinks, Cardinality(Scored) + 1, Len(out.rankedLinks)) = Unscored

\* C23, amended: the candidates are reordered by descending score, those of
\* equal score keep the relative order the oracle's answer lists them in, and
\* those the answer does not name follow in their original order.
TiesKeepAnswerOrder ==
  RankingApplied =>
    /\ Len(out.rankedLinks) = Cardinality(Scored) + Len(Unscored)
    /\ \A i \in Scored :
         out.rankedLinks[1 + Cardinality({j \in Scored : BeforeInAnswer(j, i)})].url
           = hranking[i].url
    /\ SubSeq(out.rankedLinks, Cardinality(Scored) + 1, Len(out.rankedLinks)) = Unscored

\* three candidates; the answer gives the second and the third the same
\* score, higher than the first's, and lists the third before the second
TieListedInOtherOrder ==
  /\ RankingApplied
  /\ Len(out.filteredLinks) = 3
  /\ Len(hranking) = 3
  /\ hranking[1].url = out.filteredLinks[3].url /\ hranking[1].score = 9
  /\ hranking[2].url = out.filteredLinks[2].url /\ hranking[2].score = 9
  /\ hranking[3].url = out.filteredLinks[1].url /\ hranking[3].score = 5
  /\ out.rankedLinks = <<out.filteredLinks[3], out.filteredLinks[2], out.filteredLinks[1]>>

----------------------------------------------------------------------------
(* C24 *)

\* C24: whatever the ranking oracle does (it fails, answers an empty list,
\* names only some candidates, names URLs that are no candidates), every URL
\* of the candidate list before the ranking is in the list that is verified;
\* when the oracle fails or answers an empty list the list is unchanged.
RankingKeepsEveryCandidate ==
  hpc = "ranked" =>
    /\ Range(UrlsOf(out.filteredLinks)) \subseteq Range(UrlsOf(out.rankedLinks))
    /\ (out.rankFailed \/ Len(hranking) = 0) => out.rankedLinks = out.filteredLinks

\* three candidates; the answer names the last of them and a URL that is no
\* candidate; the last candidate is verified first and the other two follow
PartialRankingApplied ==
  /\ RankingApplied
  /\ Len(out.filteredLinks) = 3
  /\ Len(hranking) = 2
  /\ hranking[1].url = out.filteredLinks[3].url
  /\ hranking[2].url \notin Range(UrlsOf(out.filteredLinks))
  /\ out.rankedLinks = <<out.filteredLinks[3], out.filteredLinks[1], out.filteredLinks[2]>>

----------------------------------------------------------------------------
(* C25 *)

\* the link has one of the keywords some strategy looks for, in its URL, its
\* text or its snippet
HasNewsKeyword(l) ==
  (UrlKw(l.url) \cup KwOfToken(l.title) \cup KwOfToken(l.snippet))
    \cap {"news", "press", "media", "blog", "updates", "investor", "announcement",
          "press release"} # {}

\* C25 as stated: in every strategy, no URL that ends in a pdf or image
\* extension and no link without a news, press or media keyword in its URL
\* or text is submitted to verification.
UnsuitableLinksAreExcluded ==
  (AtCandidate /\ WebsiteParses(company.website)) =>
    /\ ~UrlIsFile(Candidate.url)
    /\ HasNewsKeyword(Candidate)

----------------------------------------------------------------------------
(* C26 *)

\* C26: categorizeUrls puts every link of its input into exactly one of
\* listingPages and articles, also a link whose URL cannot be parsed: no link
\* is in both, the two together are the input, and each keeps the order of
\* the input.
CategoriesPartitionTheLinks ==
  hpc = "categorized" =>
    /\ Range(out.listingPages) \cap Range(out.articles) = {}
    /\ Range(out.listingPages) \cup Range(out.articles) = Range(hlinks)
    /\ Len(out.listingPages) + Len(out.articles) = Len(hlinks)
    /\ out.listingPages = FilterSeq(hlinks, Range(out.listingPages))
    /\ out.articles = FilterSeq(hlinks, Range(out.articles))

\* a link whose URL cannot be parsed stands between two different articles:
\* it is a listing page, and the articles keep their order
UnparsedBetweenArticles ==
  /\ hpc = "categorized"
  /\ Len(hlinks) = 3
  /\ ~UrlParses(hlinks[2].url)
  /\ hlinks[1] # hlinks[3]
  /\ out.listingPages = <<hlinks[2]>>
  /\ out.articles = <<hlinks[1], hlinks[3]>>

----------------------------------------------------------------------------
(* C27 *)

\* one of the article signals holds for the link: a year segment in the
\* path, a long or multi-hyphen last segment, a single-document marker in the
\* path, an announcement-style title
ArticleSignal(l) ==
  \/ hasYearInPath(l.url)
  \/ looksLikeArticleSlug(l.url)
  \/ hasArticlePathIndicators(l.url)
  \/ TextIsSpecific(l.title)

\* C27: a link whose last path segment is a generic listing-page name, or
\* which has no path segment, is a listing page whatever article signals hold
\* for it; a link with another last segment is an article exactly when one
\* of the article signals holds for it. (Links whose URL parses: the others
\* are removed by the domain filter before they are classified.)
GenericNameOverrides ==
  hpc = "categorized" =>
    \A l \in Range(hlinks) :
      UrlParses(l.url) =>
        IF isGenericPage(l.url)
        THEN l \in Range(out.listingPages) /\ l \notin Range(out.articles)
        ELSE /\ l \in Range(out.articles) <=> ArticleSignal(l)
             /\ l \in Range(out.listingPages) <=> ~ArticleSignal(l)

\* classified together: a link with a year in its path and a generic last
\* segment, a link with an announcement title and no path segment, both
\* listing pages, and a link that is an article by its path marker alone
OverrideAndArticle ==
  /\ hpc = "categorized"
  /\ \E l \in Range(out.listingPages) :
       UrlParses(l.url) /\ hasYearInPath(l.url) /\ LastSeg(l.url) # ""
  /\ \E l \in Range(out.listingPages) :
       UrlParses(l.url) /\ TextIsSpecific(l.title) /\ LastSeg(l.url) = ""
  /\ \E l \in Range(out.articles) :
       /\ hasArticlePathIndicators(l.url)
       /\ ~hasYearInPath(l.url) /\ ~looksLikeArticleSlug(l.url) /\ ~TextIsSpecific(l.title)

----------------------------------------------------------------------------
(* C28 *)

\* the root URL r is made of the host of the article URL a and of the first
\* segments of its path
DerivedFrom(r, a) ==
  /\ UrlParses(a)
  /\ r.host = LowerSeq(a.host)
  /\ Len(r.path) <= Len(a.path)
  /\ r.path = SubSeq(a.path, 1, Len(r.path))

\* C28 as stated: every root URL that extractRootUrlsFromArticles emits has
\* fewer path segments than the article URL it is derived from, and so is
\* the URL of no article.
RootUrlsAreShorter ==
  hpc = "categorized" =>
    \A r \in Range(out.rootUrls) :
      /\ \A a \in Range(out.articles) :
           DerivedFrom(r.url, a.url) => Len(r.url.path) < Len(a.url.path)
      /\ r.url \notin Range(UrlsOf(out.articles))

----------------------------------------------------------------------------
(* C29 *)

\* C29 as stated: the searchResultsCount of the result returned adds up the
\* raw links gathered in every state that was entered. A state that found
\* the page gathered at least the link it found it by, so when HOMEPAGE or
\* SITE_SEARCH produced the success the count is larger than the number of
\* search results SEARCH gathered.
RawCountCoversEveryState ==
  (/\ pc = "done"
   /\ WebsiteParses(company.website)
   /\ result.success
   /\ result.discoveryMethod \in {"homepage", "site-search"})
    => result.searchResultsCount > sres.search.searchResultsCount

----------------------------------------------------------------------------
(* C30 *)

\* C30: during a run every step of the program leaves the steps recorded so
\* far in place and unchanged and at most appends steps after them, so the
\* list at any point is a prefix of the list at any later point; the steps of
\* the DiscoveryResult returned are that list, in the order of recording.
StepsAreAppendOnly ==
  [][/\ Len(steps') >= Len(steps)
     /\ SubSeq(steps', 1, Len(steps)) = steps
     /\ pc' = "done" => result'.steps = steps']_vars

\* a run that went through the three strategies returned the steps they
\* recorded, those of SEARCH first and those of SITE_SEARCH last
TrailOfThreeStrategies ==
  /\ pc = "done"
  /\ result.steps = steps
  /\ Len(steps) >= 5
  /\ steps[1].phase = 1
  /\ steps[Len(steps)].phase = 3
  /\ \E i \in 1..Len(steps) : steps[i].phase = 2
  /\ \A i, j \in 1..Len(steps) : i < j => steps[i].phase <= steps[j].phase

----------------------------------------------------------------------------
(* C31 *)

\* C31 as stated: in every run that enters HOMEPAGE and reaches link
\* discovery, the interaction that expands the dropdown-like menus is
\* performed after the navigation to the homepage and before the observe call
\* of link discovery: when HOMEPAGE is about to observe the links, the most
\* recent external call of the run is that interaction, made on the homepage.
DropdownsExpandedBeforeDiscovery ==
  (pc = "s2_observe" /\ WebsiteParses(company.website))
    => /\ lastCall.kind = "act"
       /\ lastCall.phase = 2
       /\ prevCall = Call("goto", companyUrl(company), 200, 2)

----------------------------------------------------------------------------
(* C32, C33 *)

\* where discoverViaSiteSearch is while it handles a term of its vocabulary
SiteLoopPcs == {"s3_act", "s3_results", "s3_back", "s3_nav", "s3_verify", "s3_validate"}

\* C32: SITE_SEARCH tries the terms "news", "press releases", "press",
\* "newsroom", "media" in that order, each at most once: while a term is
\* handled the run either stays with that term without submitting it again,
\* or submits the term that follows it, or ends in SUCCESS on a validated
\* candidate of that term, or ends EXHAUSTED after the last term. So no
\* failure while one term is handled ends SITE_SEARCH before the last term,
\* and no term is submitted after a success.
TermsTriedInOrder ==
  [][(pc \in SiteLoopPcs /\ WebsiteParses(company.website)) =>
       /\ searchTerms = <<"news", "press releases", "press", "newsroom", "media">>
       /\ loc.termIndex \in 1..Len(searchTerms)
       /\ \/ /\ pc' \in SiteLoopPcs \ {"s3_act"}
             /\ loc'.termIndex = loc.termIndex
          \/ /\ pc' = "s3_act"
             /\ loc'.termIndex = loc.termIndex + 1
          \/ /\ pc' = "done"
             /\ pc = "s3_validate"
             /\ result'.success
             /\ result'.discoveryMethod = "site-search"
          \/ /\ pc' = "done"
             /\ ~result'.success
             /\ loc.termIndex = Len(searchTerms)
             /\ sres'.site.error = "No valid press release pages found via site search"]_vars

\* the submission of the first term threw, and the run found the page with
\* the second term
SecondTermAfterFailedFirst ==
  /\ pc = "done"
  /\ result.success
  /\ result.discoveryMethod = "site-search"
  /\ faults = 1
  /\ \E k \in 1..Len(steps) :
       /\ steps[k].phase = 3
       /\ steps[k].action = "Verify candidate"
       /\ steps[k].result = "success"
       /\ steps[k].term = 2
  /\ ~\E k \in 1..Len(steps) : steps[k].phase = 3 /\ steps[k].term = 1

\* C33 as stated: the result links of a term are collected only when the
\* submission of the term changed the URL of the page with respect to the URL
\* the page had before the submission; a submission that left the URL where
\* it was is treated as failed.
ResultsOnlyWhenUrlChanged ==
  [][(pc = "s3_act" /\ pc' = "s3_results" /\ WebsiteParses(company.website))
       => loc'.pageUrl # loc.pageUrl]_vars

----------------------------------------------------------------------------
(* C34 *)

\* C34 as stated: the entry of a target that ended in SUCCESS is written to
\* the result cache as part of finishing that target: when the cache is
\* looked up for the next target of the batch, every target before it that
\* discovery found a page for has its entry in the store, so a later target
\* with the same domain is served from the cache.
EntryWrittenBeforeNextLookup ==
  (bpc = "lookup" /\ enabled /\ idx <= Len(batch))
    => \A k \in 1..Len(results) :
         (results[k].success /\ results[k].discoveryMethod # "cached")
           => Stored(CacheKey(batch[k].website)) # {}

----------------------------------------------------------------------------
(* C35 *)

\* C35: in every DiscoveryResult discoverNewsPage returns, success is true
\* exactly when newsPageUrl is not null and exactly when discoveryMethod is
\* set, to the strategy that found the page; a result with success false has
\* its error populated and a null latestDate.
ResultIsConsistent ==
  pc = "done" =>
    /\ result.success <=> result.newsPageUrl # NoUrl
    /\ result.success <=> result.discoveryMethod \in {"search", "homepage", "site-search"}
    /\ result.discoveryMethod \in {"search", "homepage", "site-search", "none"}
    /\ ~result.success => (result.error # "" /\ result.latestDate = "null")

\* the catch block of discoverNewsPage returned a failure after HOMEPAGE ran
CatchResultReturned ==
  /\ pc = "done"
  /\ ~result.success
  /\ result.discoveryMethod = "none"
  /\ result.newsPageUrl = NoUrl
  /\ result.error = "No active page"
  /\ sres.homepage # NotRun

----------------------------------------------------------------------------
(* C36 *)

\* C36 as stated: a run served from the cache leaves the stored entry as it
\* is: when the session stores the result it built from a cache hit, the
\* entry of that domain still has the newsPageUrl, the discoveryMethod and
\* the discoveredAt it had.
CacheHitLeavesEntryUnchanged ==
  [][(/\ bpc = "store"
      /\ storeIdx <= Len(results)
      /\ results[storeIdx].discoveryMethod = "cached")
       => {e \in cache' : e.domain = CacheKey(results[storeIdx].companyWebsite)}
            = Stored(CacheKey(results[storeIdx].companyWebsite))]_vars

----------------------------------------------------------------------------
(* C37 *)

\* C37: the cache lookup never throws and fails open: when persistence is
\* disabled, when the store has no entry under the key, or when the read of
\* the entry fails, getCachedDiscoveryResult returns null and testNewsDiscovery
\* calls discoverNewsPage for the target; the session is never ended by a
\* lookup.
LookupFailsOpen ==
  [][bpc = "lookup" =>
       /\ bpc' \in {"discover", "lookup", "upload"}
       /\ (~enabled \/ Stored(CacheKey(Target.website)) = {} \/ s3faults' # s3faults)
            => /\ bpc' = "discover"
               /\ pc' = "s1_goto"
               /\ company' = Target
               /\ results' = results]_vars

\* the entry of the target is in the store, its read failed, and discovery
\* has been started for the target
DiscoveryAfterFailedRead ==
  /\ session = 2
  /\ enabled
  /\ bpc = "discover"
  /\ pc = "s1_goto"
  /\ company = Target
  /\ Stored(CacheKey(Target.website)) # {}
  /\ s3faults = 1

----------------------------------------------------------------------------
(* C38 *)

\* one run of discoverNewsPage for which the external sources have one answer
\* less to give than in Init
InitLive ==
  /\ \E c \in Targets : company = c
  /\ pc = "s1_goto"
  /\ steps = <<>>
  /\ loc = InitLoc
  /\ sres = [search |-> NotRun, homepage |-> NotRun, site |-> NotRun]
  /\ result = NoResult
  /\ faults = 0
  /\ served = 1
  /\ calls = [ph \in 1..3 |-> 0]
  /\ lastCall = NoCall
  /\ prevCall = NoCall
  /\ NoBatch

\* every external call that is awaited returns or throws: the step of the run
\* that waits for it is eventually taken
SpecLive == InitLive /\ [][Next]_vars /\ WF_vars(Next)

\* C38: provided every external call returns or throws, every run of
\* discoverNewsPage eventually returns. No strategy is entered again after a
\* later one was entered. The candidates a strategy has navigated to for
\* verification are at most those of its finite candidate list, and in
\* SITE_SEARCH at most maxCandidatesToCheck for each of the five terms.
RunReturns ==
  /\ <>(pc = "done")
  /\ [][PhaseOf(pc') >= PhaseOf(pc)]_vars
  /\ [](/\ AtCandidate => (loc.i \in 1..Len(loc.candidates) /\ loc.candidatesChecked <= loc.i)
        /\ PhaseOf(pc) = 3 =>
             /\ loc.termIndex <= Len(searchTerms)
             /\ loc.candidatesChecked <= maxCandidatesToCheck
             /\ loc.totalCandidatesChecked <= maxCandidatesToCheck * loc.termIndex
        /\ sres.site.candidatesChecked <= maxCandidatesToCheck * Len(searchTerms))

\* a run returned after the three strategies: SITE_SEARCH navigated to a
\* candidate and went through the five terms
ReturnedAfterFiveTerms ==
  /\ pc = "done"
  /\ ~result.success
  /\ sres.search # NotRun
  /\ sres.homepage # NotRun
  /\ sres.site.candidatesChecked >= 1
  /\ sres.site.error = "No valid press release pages found via site search"

----------------------------------------------------------------------------
(* C39 *)

\* the log batches in the store that hold the line n
BatchesWith(n) == {o \in objects : n \in Range(o.logs)}

\* C39 as stated: when endSession has returned from an enabled session, every
\* log line the logger accepted during the session is in exactly one uploaded
\* log batch: none is lost and none is in two batches, whatever the order of
\* logger calls, size-triggered flushes, timer-triggered flushes and the final
\* flush was.
EveryLineUploadedOnce ==
  (lpc = "ended" /\ enabled)
    => \A n \in 1..totalLogCount : Cardinality(BatchesWith(n)) = 1

----------------------------------------------------------------------------
(* C40 *)

\* the uploads of log batches that have not settled
InFlight == pendingUploads \cup syncUpload

\* C40: uploadWithRetry sends the request of an upload at most 3 times, the
\* attempts 1, 2, 3 in turn: an attempt is made only after the attempt before
\* it failed, no attempt follows one that succeeded, and a failed attempt
\* before the third is followed by the next one. An upload whose request
\* succeeded or failed for the third time has settled: it is no longer in
\* pendingUploads, and the third failure of an awaited uploadSync is thrown to
\* its caller. So every upload settles after at most 3 requests.
UploadMakesAtMostThreeAttempts ==
  /\ \A up \in InFlight : up.attempt \in 1..3 /\ up.state = "pending"
  /\ \A r \in requests :
       /\ r.attempt \in 1..3
       /\ r.attempt > 1 =>
            [batchIndex |-> r.batchIndex, attempt |-> r.attempt - 1, ok |-> FALSE] \in requests
       /\ r.ok => ~\E q \in requests : q.batchIndex = r.batchIndex /\ q.attempt > r.attempt
       /\ (r.ok \/ r.attempt = 3) => ~\E up \in InFlight : up.batchIndex = r.batchIndex
       /\ (~r.ok /\ r.attempt < 3) =>
            \/ \E up \in InFlight :
                 up.batchIndex = r.batchIndex /\ up.attempt = r.attempt + 1
            \/ \E q \in requests : q.batchIndex = r.batchIndex /\ q.attempt = r.attempt + 1
  /\ lpc = "failed" => \E r \in requests : r.attempt = 3 /\ ~r.ok

\* an upload started with uploadAsync failed three times and has left
\* pendingUploads, and another one succeeded at its first attempt
ThirdFailureSettles ==
  /\ lpc # "failed"
  /\ \E r, q \in requests :
       /\ r.attempt = 3 /\ ~r.ok
       /\ q.attempt = 1 /\ q.ok
       /\ ~\E up \in InFlight : up.batchIndex \in {r.batchIndex, q.batchIndex}

====
